---- MODULE Spec2Model ----
(***************************************************************************)
(* Trading_Alert: the portable XGBoost evaluator of the mobile app         *)
(* (services/model_inference.py) and the label constructor of the desktop  *)
(* trainer (ml/stock_engine.py), as state machines.                        *)
(*                                                                         *)
(* Numbers.  Python floats that are added or compared (split thresholds,   *)
(* leaf weights, base scores, feature values, raw scores) are integers in  *)
(* units of one half: 5.0 is 10, 0.5 is 1.  Node and feature indices are   *)
(* plain integers.  Sequences are 1-based, so Python's a[i] is a[i + 1].   *)
(***************************************************************************)
EXTENDS Integers, Sequences, FiniteSets, TLC

\* ------------------------------------------------------------------------
\* Bounds of the model
\* ------------------------------------------------------------------------

\* Most nodes of a tree whose child indices are enumerated.
MaxNodes == 3

\* Most trees of an enumerated ensemble.
MaxTrees == 2

\* ------------------------------------------------------------------------
\* State
\* ------------------------------------------------------------------------

VARIABLES
    tree_json,      \* the serialized tree handed to XGBoostTree.from_json
    tree,           \* the XGBoostTree built from it
    features,       \* the feature vector handed to predict
    node,           \* predict's local variable node
    pc,             \* "parse", "loop", "returned" or "raised"
    ret,            \* the value predict returned, the exception raised
    trail,          \* the nodes whose is_leaf flag the loop has tested
    model_json,     \* the serialized ensemble handed to XGBoostModel.from_json
    model,          \* the XGBoostModel built from it
    tidx,           \* position of predict_raw's "for tree in self.trees"
    total,          \* predict_raw's running total
    epc,            \* "parse", "trees", "sigmoid", "returned", "raised", "hung"
    proba,          \* what predict_proba returned or raised
    files,          \* model_<horizon>.json of the package directory
    manifest,       \* features.json of the package directory
    _models,        \* self._models, by horizon, for the symbol
    _feature_names, \* self._feature_names[symbol], or unset
    fresh,          \* no file changed since the last load_models
    last,           \* the last call on ModelInference and what it gave
    df,             \* the Close column of the table handed to _create_targets
    labelled,       \* the table _create_targets returned
    lpc,            \* "ready" or "done"
    bars,           \* the OHLCV series handed to the feature builders
    desk,           \* what StockEngine.calculate_features returned
    mob,            \* what DataFetcher._calculate_features returned
    df_1h,          \* the feature-computed 1H series handed to _merge_timeframes
    df_4h,          \* the feature-computed 4H series
    df_1d,          \* the feature-computed 1D series
    merged,         \* what _merge_timeframes returned or raised
    data_dir,       \* the cached series, by symbol and timeframe
    model_dir,      \* the saved ensembles and the package of each symbol
    tpc,            \* where a running train_model stands
    trained,        \* what the last train_model of each symbol returned
    inferred,       \* what the last run_inference returned
    pkg_dir,        \* <symbol>_mobile_pkg in model_dir, by symbol
    master_export_dir,  \* mobile_exports in model_dir
    exported,       \* what the last export_mobile_package returned or raised
    exported_all,   \* what the last export_all_models returned or raised
    models_dir,     \* the package directories of the app, by name
    models_of,      \* self._models, by symbol and horizon
    feature_names_of,   \* self._feature_names, by symbol
    answer,         \* the last call on the packages and what it returned
    stock_list,     \* the host's stock list: symbol and data_status per item
    to_train,       \* the items the running _thread_train has still to train
    train_thread,   \* whether a _thread_train runs
    sim_combo,      \* the symbol selected in the simulation tab, "" for none
    fetched,        \* the last fetch_data: what the remote sent, what it returned
    fetch_threads,  \* the _thread_fetch threads: their pools' queues and workers
    thresholds,     \* config["thresholds"], in tenths of a percent
    signal,         \* the last direct SignalFilter.evaluate: input and result
    stocks,         \* WatchlistScreen.stocks
    is_scanning,    \* WatchlistScreen.is_scanning
    scan,           \* where _scan_all is, and whether a request was refused
    failed_symbols, \* DataFetcher.failed_symbols
    json_cache,     \* per symbol: the JSON cache file of the device's fetcher
    latest,         \* per symbol: how its latest attempted live fetch went
    retried         \* the last retry_failed: what it saw and what it returned

\* The variables of XGBoostTree's part, but for the feature vector.
treeVars == <<tree_json, tree, node, pc, ret, trail>>

\* The variables of XGBoostModel's part, but for the feature vector.
ensVars == <<model_json, model, tidx, total, epc, proba>>

\* The variables of ModelInference's part.
infVars == <<files, manifest, _models, _feature_names, fresh, last>>

\* The variables of _create_targets' part.
lblVars == <<df, labelled, lpc>>

\* The variables of the feature builders' part.
featVars == <<bars, desk, mob>>

\* The variables of the inference engine and of the label construction.
coreVars == <<features, treeVars, ensVars, infVars, lblVars>>

\* The variables of the desktop engine's and the package store's parts.
\* The variables of _merge_timeframes' part.
mrgVars == <<df_1h, df_4h, df_1d, merged>>

\* The variables of train_model's and run_inference's part.
trnVars == <<data_dir, tpc, trained, inferred>>

\* The variables of the exports' part.
expVars == <<pkg_dir, master_export_dir, exported, exported_all>>

\* The variables of the app's package directories.
pkgVars == <<models_dir, models_of, feature_names_of, answer>>

\* The variables of the desktop host.
hostVars == <<stock_list, to_train, train_thread, sim_combo>>

\* The variables of the two applications around the engine.
sigVars == <<thresholds, signal>>
watchVars == <<stocks, is_scanning, scan>>
dfVars == <<failed_symbols, json_cache, latest, retried>>
mobVars == <<sigVars, watchVars, dfVars>>
poolVars == <<fetch_threads>>
appVars == <<hostVars, fetched, poolVars, mobVars>>

engVars == <<featVars, mrgVars, trnVars, model_dir, expVars,
                   pkgVars, appVars>>

vars == <<coreVars, engVars>>

\* ------------------------------------------------------------------------
\* JSON values as json.load returns them
\* ------------------------------------------------------------------------

\* A Python int n.
JInt(n) == [kind |-> "int", num |-> n, chars |-> <<>>, items |-> <<>>]

\* A Python float of h halves.
JFloat(h) == [kind |-> "float", num |-> h, chars |-> <<>>, items |-> <<>>]

\* A Python str, one character per element.
JStr(cs) == [kind |-> "str", num |-> 0, chars |-> cs, items |-> <<>>]

\* A Python list of JSON values.
JList(xs) == [kind |-> "list", num |-> 0, chars |-> <<>>, items |-> xs]

\* Python None (JSON null).
JNull == [kind |-> "null", num |-> 0, chars |-> <<>>, items |-> <<>>]

\* ------------------------------------------------------------------------
\* XGBoostTree._safe_float
\* ------------------------------------------------------------------------

\* The characters of val.strip("[]'\" ").
StripChars == {"[", "]", "'", "\"", " "}

Digits == {"0", "1", "2", "3", "4", "5", "6", "7", "8", "9"}

RECURSIVE LStrip(_)
LStrip(s) ==
    IF Len(s) > 0 /\ Head(s) \in StripChars THEN LStrip(Tail(s)) ELSE s

RECURSIVE RStrip(_)
RStrip(s) ==
    IF Len(s) > 0 /\ s[Len(s)] \in StripChars
    THEN RStrip(SubSeq(s, 1, Len(s) - 1))
    ELSE s

\* str.strip(chars): leading and trailing characters of the set removed.
Strip(s) == RStrip(LStrip(s))

DigitVal(c) ==
    CASE c = "0" -> 0 [] c = "1" -> 1 [] c = "2" -> 2 [] c = "3" -> 3
      [] c = "4" -> 4 [] c = "5" -> 5 [] c = "6" -> 6 [] c = "7" -> 7
      [] c = "8" -> 8 [] c = "9" -> 9

RECURSIVE DigitsVal(_)
DigitsVal(s) ==
    IF Len(s) = 0 THEN 0
    ELSE 10 * DigitsVal(SubSeq(s, 1, Len(s) - 1)) + DigitVal(s[Len(s)])

AllDigits(s) == \A i \in 1..Len(s) : s[i] \in Digits

\* Position of the decimal point in s, 0 when there is none.
DotPos(s) ==
    IF \E i \in 1..Len(s) : s[i] = "."
    THEN CHOOSE i \in 1..Len(s) : s[i] = "." /\ \A j \in 1..(i - 1) : s[j] # "."
    ELSE 0

\* The unsigned literals float() accepts, over the alphabet of the model:
\* digits with an optional fraction that is empty, zeros, or a single 5
\* followed by zeros (so the value is a whole number of halves).
IsUnsignedLiteral(s) ==
    LET d == DotPos(s)
        ip == IF d = 0 THEN s ELSE SubSeq(s, 1, d - 1)
        fp == IF d = 0 THEN <<>> ELSE SubSeq(s, d + 1, Len(s))
    IN /\ AllDigits(ip)
       /\ AllDigits(fp)
       /\ Len(ip) + Len(fp) > 0
       /\ \A i \in 1..Len(fp) : fp[i] = "0" \/ (i = 1 /\ fp[i] = "5")

UnsignedHalves(s) ==
    LET d == DotPos(s)
        ip == IF d = 0 THEN s ELSE SubSeq(s, 1, d - 1)
        fp == IF d = 0 THEN <<>> ELSE SubSeq(s, d + 1, Len(s))
    IN 2 * DigitsVal(ip) + (IF Len(fp) > 0 /\ fp[1] = "5" THEN 1 ELSE 0)

\* float(s) succeeds (no ValueError).
IsFloatLiteral(s) ==
    IF Len(s) > 0 /\ Head(s) \in {"-", "+"}
    THEN IsUnsignedLiteral(Tail(s))
    ELSE IsUnsignedLiteral(s)

\* float(s) in halves, for a literal.
ParseFloat(s) ==
    IF Head(s) = "-" THEN 0 - UnsignedHalves(Tail(s))
    ELSE IF Head(s) = "+" THEN UnsignedHalves(Tail(s))
    ELSE UnsignedHalves(s)

\* _safe_float(val), in halves.
RECURSIVE _safe_float(_)
_safe_float(val) ==
    IF val.kind = "int" THEN 2 * val.num
    ELSE IF val.kind = "float" THEN val.num
    ELSE IF val.kind = "str"
         THEN LET s == Strip(val.chars)
              IN IF IsFloatLiteral(s) THEN ParseFloat(s) ELSE 0
    ELSE IF val.kind = "list" /\ Len(val.items) > 0
         THEN _safe_float(val.items[1])
    ELSE 0

\* ------------------------------------------------------------------------
\* XGBoostTree
\* ------------------------------------------------------------------------

TreeKeys ==
    {"left_children", "right_children", "split_indices",
     "split_conditions", "base_weights"}

\* Outcomes of a piece of Python code: a value, the next loop position, or
\* an exception.
Return(v) == [k |-> "return", val |-> v, node |-> JNull, err |-> ""]
Goto(n) == [k |-> "goto", val |-> 0, node |-> n, err |-> ""]
Raise(e) == [k |-> "raise", val |-> 0, node |-> JNull, err |-> e]

\* XGBoostTree.__init__: is_leaf = [left == -1 for left in left_children].
\* An int or float equals -1 by value; a str or a list never does.
IsLeafFlag(left) ==
    \/ left.kind = "int" /\ left.num = -1
    \/ left.kind = "float" /\ left.num = -2

\* XGBoostTree.from_json: split_conditions and base_weights go through
\* _safe_float, the three index arrays are taken as they are; a missing
\* key is a KeyError.
TreeFromJson(tj) ==
    IF ~(TreeKeys \subseteq DOMAIN tj) THEN Raise("KeyError")
    ELSE [k |-> "return", err |-> "", node |-> JNull,
          val |->
            [left_children |-> tj["left_children"],
             right_children |-> tj["right_children"],
             split_indices |-> tj["split_indices"],
             split_conditions |->
                [i \in 1..Len(tj["split_conditions"]) |->
                    _safe_float(tj["split_conditions"][i])],
             base_weights |->
                [i \in 1..Len(tj["base_weights"]) |->
                    _safe_float(tj["base_weights"][i])],
             is_leaf |->
                [i \in 1..Len(tj["left_children"]) |->
                    IsLeafFlag(tj["left_children"][i])]]]

IsNumber(v) == v.kind \in {"int", "float"}

\* The value of a number in halves, for comparisons with ints.
Halves(v) == IF v.kind = "int" THEN 2 * v.num ELSE v.num

\* Python's list[i] for a list (a sequence) and an index value: a TypeError
\* unless the index is an int, a negative index counts from the end, and an
\* index outside -len..len-1 is an IndexError.
ListGet(list, idx) ==
    IF idx.kind # "int" THEN Raise("TypeError")
    ELSE IF idx.num >= 0 /\ idx.num < Len(list) THEN Return(list[idx.num + 1])
    ELSE IF idx.num < 0 /\ idx.num >= 0 - Len(list)
         THEN Return(list[Len(list) + idx.num + 1])
    ELSE Raise("IndexError")

\* "if feat_idx >= len(features)": TypeError for a str or a list.
FeatIdxBeyond(feat_idx, n) ==
    IF ~IsNumber(feat_idx) THEN Raise("TypeError")
    ELSE Return(Halves(feat_idx) >= 2 * n)

\* A slip in the split test: equality sent to the left child.
GoesLeftOnEqual(fv, threshold) == fv <= threshold

\* "if features[feat_idx] < threshold".
GoesLeft(fv, threshold) == fv < threshold

\* "if node < 0 or node >= len(self.is_leaf)": TypeError for a str or a list.
NodeOutside(nd, n) ==
    IF ~IsNumber(nd) THEN Raise("TypeError")
    ELSE Return(Halves(nd) < 0 \/ Halves(nd) >= 2 * n)

\* The return after the loop: self.base_weights[node].
FinalWeight(t, nd) == ListGet(t.base_weights, nd)

\* One pass of "while not self.is_leaf[node]" of XGBoostTree.predict, from
\* its test to the next test, for the tree t at the position nd.
TreeStep(t, fs, nd) ==
    LET leaf == ListGet(t.is_leaf, nd) IN
    IF leaf.k = "raise" THEN leaf
    ELSE IF leaf.val THEN FinalWeight(t, nd)
    ELSE
    LET feat_idx == ListGet(t.split_indices, nd)
        threshold == ListGet(t.split_conditions, nd)
    IN
    IF feat_idx.k = "raise" THEN feat_idx
    ELSE IF threshold.k = "raise" THEN threshold
    ELSE
    LET beyond == FeatIdxBeyond(feat_idx.val, Len(fs)) IN
    IF beyond.k = "raise" THEN beyond
    ELSE IF beyond.val THEN ListGet(t.base_weights, nd)
    ELSE
    LET fv == ListGet(fs, feat_idx.val) IN
    IF fv.k = "raise" THEN fv
    ELSE
    LET child == IF GoesLeft(fv.val, threshold.val)
                 THEN ListGet(t.left_children, nd)
                 ELSE ListGet(t.right_children, nd)
    IN
    IF child.k = "raise" THEN child
    ELSE
    LET outside == NodeOutside(child.val, Len(t.is_leaf)) IN
    IF outside.k = "raise" THEN outside
    ELSE IF outside.val THEN FinalWeight(t, child.val)
    ELSE Goto(child.val)

\* XGBoostTree.predict run for at most fuel passes of its loop; "hang" when
\* the loop is still running after them.
RECURSIVE RunTree(_, _, _, _)
RunTree(t, fs, nd, fuel) ==
    LET o == TreeStep(t, fs, nd) IN
    IF o.k # "goto" THEN o
    ELSE IF fuel = 0 THEN [k |-> "hang", val |-> 0, node |-> o.node, err |-> ""]
    ELSE RunTree(t, fs, o.node, fuel - 1)

\* ------------------------------------------------------------------------
\* One tree, parsed and evaluated
\* ------------------------------------------------------------------------


NoTree == [left_children |-> <<>>, right_children |-> <<>>,
           split_indices |-> <<>>, split_conditions |-> <<>>,
           base_weights |-> <<>>, is_leaf |-> <<>>]

\* The decimal digits of a natural number.
RECURSIVE NatChars(_)
NatChars(n) ==
    LET d == <<"0", "1", "2", "3", "4", "5", "6", "7", "8", "9">>
    IN IF n < 10 THEN <<d[n + 1]>> ELSE NatChars(n \div 10) \o <<d[(n % 10) + 1]>>

\* The text of an integer.
IntChars(n) == IF n < 0 THEN <<"-">> \o NatChars(0 - n) ELSE NatChars(n)

\* The text of a float of h halves: "5.0", "-1.0", "0.5".
FloatChars(h) ==
    LET a == IF h < 0 THEN 0 - h ELSE h
    IN (IF h < 0 THEN <<"-">> ELSE <<>>) \o NatChars(a \div 2)
       \o <<".", IF a % 2 = 1 THEN "5" ELSE "0">>

\* The ways the serializer has written the whole number n.
IntForms(n) ==
    {JInt(n), JFloat(2 * n), JStr(IntChars(n)),
     JStr(<<"[">> \o IntChars(n) \o <<"]">>),
     JStr(<<"'">> \o IntChars(n) \o <<"'">>),
     JList(<<JInt(n)>>), JList(<<JStr(IntChars(n))>>)}

\* The ways the serializer has written the float of h halves.
FloatForms(h) ==
    {JFloat(h), JStr(FloatChars(h)),
     JStr(<<"[">> \o FloatChars(h) \o <<"]">>),
     JStr(<<" ", "\"">> \o FloatChars(h) \o <<"\"">>),
     JList(<<JFloat(h)>>), JList(<<JStr(FloatChars(h))>>)}

\* Elements no float can be made of.
Uncoercible == {JStr(<<"a">>), JStr(<<>>), JList(<<>>), JNull}

\* Feature vectors: feature 0 below, at and above the threshold 5.0.
FeatureVecs == {<<6, 14>>, <<14, 6>>, <<10, 10>>}

\* Weight of node i (from 0) in the enumerated trees: 1.0, 2.0, ...
NodeWeight(i) == JFloat(2 * (i + 1))

\* Trees of n nodes whose first two nodes have the child indices c and whose
\* root splits on feature s0; every further node is a leaf.
ShapeJson(n, c, s0) ==
    [left_children |->
        [i \in 1..n |-> IF i <= 2 THEN JInt(c[2 * i - 1]) ELSE JInt(-1)],
     right_children |->
        [i \in 1..n |-> IF i <= 2 THEN JInt(c[2 * i]) ELSE JInt(-1)],
     split_indices |-> [i \in 1..n |-> IF i = 1 THEN JInt(s0) ELSE JInt(i - 1)],
     split_conditions |-> [i \in 1..n |-> JFloat(10)],
     base_weights |-> [i \in 1..n |-> NodeWeight(i - 1)]]

\* Split feature indices tried at the root, for vectors of two features:
\* in range, beyond the end, and negative.
SplitVals == {-3, -1, 0, 1, 2}

ShapeTrees ==
    UNION {
        {ShapeJson(n, c, s0) :
            c \in {x \in [1..4 -> -2..n] : n = 1 => (x[3] = -1 /\ x[4] = -1)},
            s0 \in SplitVals}
        : n \in 1..MaxNodes}

\* The tree of spec section 8: root split feature[0] < 5.0, leaves -1.0
\* and +1.0.
ExampleJson ==
    [left_children |-> <<JInt(1), JInt(-1), JInt(-1)>>,
     right_children |-> <<JInt(2), JInt(-1), JInt(-1)>>,
     split_indices |-> <<JInt(0), JInt(0), JInt(0)>>,
     split_conditions |-> <<JFloat(10), JFloat(0), JFloat(0)>>,
     base_weights |-> <<JFloat(3), JFloat(-2), JFloat(2)>>]

IndexKeys == {"left_children", "right_children", "split_indices"}

\* The native number a coerced element stands for, in its array.
NativeOf(key, x) ==
    IF key \in IndexKeys THEN JInt(_safe_float(x) \div 2) ELSE JFloat(_safe_float(x))

\* The same tree with every element a native number.
NativeJson(tj) ==
    [key \in DOMAIN tj |-> [i \in 1..Len(tj[key]) |-> NativeOf(key, tj[key][i])]]

\* The example tree with one element of one array written another way, or
\* replaced by an element no float can be made of.
FormTrees ==
    {[ExampleJson EXCEPT ![key][i] = x] :
        key \in TreeKeys, i \in 1..3,
        x \in Uncoercible \cup
              UNION {IntForms(n) : n \in {-1, 0, 1, 2}} \cup
              UNION {FloatForms(h) : h \in {-2, 0, 2, 3, 10}}}
    \ {ExampleJson}

\* The example tree without one of its arrays.
TornTrees ==
    {[key \in TreeKeys \ {gone} |-> ExampleJson[key]] : gone \in TreeKeys}

InitTree ==
    /\ tree_json \in ShapeTrees \cup FormTrees \cup TornTrees \cup {ExampleJson}
    /\ features \in FeatureVecs
    /\ tree = NoTree
    /\ node = JInt(0)
    /\ pc = "parse"
    /\ ret = Return(0)
    /\ trail = <<>>

\* XGBoostTree.from_json(tree_json).
from_json ==
    /\ pc = "parse"
    /\ LET o == TreeFromJson(tree_json) IN
       IF o.k = "raise"
       THEN /\ pc' = "raised"
            /\ ret' = o
            /\ UNCHANGED tree
       ELSE /\ pc' = "loop"
            /\ tree' = o.val
            /\ UNCHANGED ret
    /\ UNCHANGED <<tree_json, features, node, trail, ensVars, infVars, lblVars,
                 engVars>>

\* One pass of the loop of XGBoostTree.predict(features).  A pass is taken
\* as long as the loop has tested no more nodes than the tree has and one
\* more: a deterministic loop over node that tests more has come back to a
\* node and runs forever.
predict_step ==
    /\ pc = "loop"
    /\ Len(trail) <= Len(tree.is_leaf)
    /\ trail' = Append(trail, node)
    /\ LET o == TreeStep(tree, features, node) IN
       IF o.k = "goto"
       THEN /\ node' = o.node
            /\ UNCHANGED <<pc, ret>>
       ELSE /\ pc' = IF o.k = "return" THEN "returned" ELSE "raised"
            /\ ret' = o
            /\ UNCHANGED node
    /\ UNCHANGED <<tree_json, tree, features, ensVars, infVars, lblVars,
                 engVars>>

NextTree == from_json \/ predict_step

\* ------------------------------------------------------------------------
\* XGBoostModel
\* ------------------------------------------------------------------------

\* dict.get(key, default); a dict is a function on its keys.
Get(d, key, default) == IF key \in DOMAIN d THEN d[key] ELSE default

\* The empty dict {}.
EmptyDict == <<>>

\* The first tree of ts that from_json raises on, 0 when there is none.
FirstBadTree(ts) ==
    IF \E i \in 1..Len(ts) : TreeFromJson(ts[i]).k = "raise"
    THEN CHOOSE i \in 1..Len(ts) :
            /\ TreeFromJson(ts[i]).k = "raise"
            /\ \A j \in 1..(i - 1) : TreeFromJson(ts[j]).k # "raise"
    ELSE 0

\* XGBoostModel.from_json: every lookup but the tree's own arrays has a
\* default, so a file without a tree list gives a model of no trees.
ModelFromJson(mj) ==
    LET learner == Get(mj, "learner", mj)
        model_param == Get(learner, "learner_model_param", EmptyDict)
        base_score == _safe_float(Get(model_param, "base_score",
                                      JStr(<<"0", ".", "5">>)))
        tree_data == Get(Get(Get(learner, "gradient_booster", EmptyDict),
                             "model", EmptyDict), "trees", <<>>)
        bad == FirstBadTree(tree_data)
    IN IF bad # 0 THEN TreeFromJson(tree_data[bad])
       ELSE Return([trees |-> [i \in 1..Len(tree_data) |->
                                  TreeFromJson(tree_data[i]).val],
                    base_score |-> base_score])

\* The largest number of halves math.exp takes: math.exp(709.5) is a float,
\* math.exp(710.0) raises OverflowError.
ExpMaxHalves == 1419

\* round(100 / (1 + e^-x), 1) in tenths of a percent, for x = -8.0, -7.5,
\* ..., 8.0.
SigmoidTenths ==
    <<0, 1, 1, 2, 2, 4, 7, 11, 18, 29, 47, 76, 119, 182, 269, 378,
      500,
      622, 731, 818, 881, 924, 953, 971, 982, 989, 993, 996, 998, 998, 999,
      999, 1000>>

\* "1.0 / (1.0 + math.exp(-raw))" of predict_proba, as the percentage
\* ModelInference.predict rounds it to, in tenths of a percent.
Sigmoid(raw) ==
    IF 0 - raw > ExpMaxHalves THEN Raise("OverflowError")
    ELSE IF raw >= 16 THEN Return(1000)
    ELSE IF raw <= -16 THEN Return(0)
    ELSE Return(SigmoidTenths[raw + 17])

\* XGBoostModel.predict_raw from the tree at position i on, the running
\* total being sum; a tree whose loop never ends hangs the call.
RECURSIVE PredictRawFrom(_, _, _, _)
PredictRawFrom(m, fs, i, sum) ==
    IF i > Len(m.trees) THEN Return(sum)
    ELSE LET o == RunTree(m.trees[i], fs, JInt(0), Len(m.trees[i].is_leaf))
         IN IF o.k # "return" THEN o
            ELSE PredictRawFrom(m, fs, i + 1, sum + o.val)

PredictRaw(m, fs) == PredictRawFrom(m, fs, 1, m.base_score)

\* XGBoostModel.predict_proba.
PredictProba(m, fs) ==
    LET raw == PredictRaw(m, fs)
    IN IF raw.k # "return" THEN raw ELSE Sigmoid(raw.val)


NoModel == [trees |-> <<>>, base_score |-> 0]

\* A leaf-only tree of weight w halves.
LeafJson(w) ==
    [left_children |-> <<JInt(-1)>>, right_children |-> <<JInt(-1)>>,
     split_indices |-> <<JInt(0)>>, split_conditions |-> <<JFloat(0)>>,
     base_weights |-> <<JFloat(w)>>]

\* Root split feature[s] < thr with the leaves lo (left) and hi (right).
StumpJson(s, thr, lo, hi) ==
    [left_children |-> <<JInt(1), JInt(-1), JInt(-1)>>,
     right_children |-> <<JInt(2), JInt(-1), JInt(-1)>>,
     split_indices |-> <<JInt(s), JInt(0), JInt(0)>>,
     split_conditions |-> <<JFloat(thr), JFloat(0), JFloat(0)>>,
     base_weights |-> <<JFloat(3), JFloat(lo), JFloat(hi)>>]

\* Two levels: feature[0] < 5.0 leads to a split on feature[1] < 7.0.
DeepJson ==
    [left_children |-> <<JInt(1), JInt(3), JInt(-1), JInt(-1), JInt(-1)>>,
     right_children |-> <<JInt(2), JInt(4), JInt(-1), JInt(-1), JInt(-1)>>,
     split_indices |-> <<JInt(0), JInt(1), JInt(0), JInt(0), JInt(0)>>,
     split_conditions |->
        <<JFloat(10), JFloat(14), JFloat(0), JFloat(0), JFloat(0)>>,
     base_weights |->
        <<JFloat(1), JFloat(5), JFloat(7), JFloat(-4), JFloat(-1)>>]

\* Well-formed trees: every child index is -1 or a later node, every split
\* index a position of the feature vector.
WellFormedTrees ==
    {ExampleJson, DeepJson, StumpJson(1, 10, -6, 9), StumpJson(1, 6, 20, -20),
     LeafJson(1), LeafJson(-2000)}

\* The sequences over S of length n.
SeqsOfLen(S, n) == [1..n -> S]

\* A serialized ensemble in XGBoost's layout.
EnsembleJson(bs, ts) ==
    [learner |->
        [learner_model_param |-> [base_score |-> bs],
         gradient_booster |-> [model |-> [trees |-> ts]]]]

\* Base scores as the serializer writes them: 0.0, 0.5, -1.0 and, far out,
\* -709.5.
BaseScores ==
    {JStr(<<"0">>), JStr(<<"0", ".", "5">>), JFloat(-2),
     JStr(<<"-", "7", "0", "9", ".", "5">>)}

WellFormedEnsembles ==
    UNION {{EnsembleJson(bs, ts) : bs \in BaseScores,
                                   ts \in SeqsOfLen(WellFormedTrees, n)}
           : n \in 0..MaxTrees}

InitEnsemble ==
    /\ model_json \in WellFormedEnsembles
    /\ features \in FeatureVecs
    /\ model = NoModel
    /\ tidx = 0
    /\ total = 0
    /\ epc = "parse"
    /\ proba = Return(0)

\* XGBoostModel.from_json(model_json).
model_from_json ==
    /\ epc = "parse"
    /\ LET o == ModelFromJson(model_json) IN
       IF o.k = "raise"
       THEN /\ epc' = "raised"
            /\ proba' = o
            /\ UNCHANGED <<model, tidx, total>>
       ELSE /\ epc' = "trees"
            /\ model' = o.val
            /\ tidx' = 1
            /\ total' = o.val.base_score
            /\ UNCHANGED proba
    /\ UNCHANGED <<model_json, features, treeVars, infVars, lblVars,
                 engVars>>

\* predict_raw: "total += tree.predict(features)" for the next tree, or
\* "return total" after the last.
predict_raw_step ==
    /\ epc = "trees"
    /\ IF tidx > Len(model.trees)
       THEN /\ epc' = "sigmoid"
            /\ UNCHANGED <<tidx, total, proba>>
       ELSE LET o == RunTree(model.trees[tidx], features, JInt(0),
                             Len(model.trees[tidx].is_leaf))
            IN IF o.k = "return"
               THEN /\ total' = total + o.val
                    /\ tidx' = tidx + 1
                    /\ UNCHANGED <<epc, proba>>
               ELSE /\ epc' = IF o.k = "raise" THEN "raised" ELSE "hung"
                    /\ proba' = o
                    /\ UNCHANGED <<tidx, total>>
    /\ UNCHANGED <<model_json, model, features, treeVars, infVars, lblVars,
                 engVars>>

\* predict_proba: the logistic function of the raw score.
predict_proba_return ==
    /\ epc = "sigmoid"
    /\ proba' = Sigmoid(total)
    /\ epc' = IF Sigmoid(total).k = "return" THEN "returned" ELSE "raised"
    /\ UNCHANGED <<model_json, model, tidx, total, features, treeVars,
                   infVars, lblVars, engVars>>

NextEnsemble == model_from_json \/ predict_raw_step \/ predict_proba_return

\* ------------------------------------------------------------------------
\* ModelInference: one symbol's package directory and the loaded models
\* ------------------------------------------------------------------------

\* ModelInference.HORIZONS, in its order.
HORIZONS == <<"4H", "2D", "5D">>

Horizons == {HORIZONS[i] : i \in 1..Len(HORIZONS)}


\* A file of the package directory: not there, or a JSON value.
Absent == [state |-> "absent", json |-> EmptyDict]
JsonFile(j) == [state |-> "json", json |-> j]

\* One stump and the default base score 0.5.
GoodModelJson == EnsembleJson(JStr(<<"0", ".", "5">>), <<ExampleJson>>)

\* An ensemble file without its tree list.
NoTreeListJson ==
    [learner |->
        [learner_model_param |-> [base_score |-> JStr(<<"0", ".", "5">>)],
         gradient_booster |-> [model |-> EmptyDict]]]

\* An ensemble file whose only tree lacks base_weights.
TornTreeJson ==
    EnsembleJson(JStr(<<"0", ".", "5">>),
                 <<[key \in TreeKeys \ {"base_weights"} |-> ExampleJson[key]]>>)

\* An ensemble whose raw score is -1000.0.
FarOutJson == EnsembleJson(JStr(<<"0">>), <<LeafJson(-2000)>>)

ModelFiles ==
    {Absent, JsonFile(GoodModelJson), JsonFile(NoTreeListJson),
     JsonFile(TornTreeJson), JsonFile(FarOutJson)}

\* A slip in the list: the 4H and the 1D column change places.
FEATURE_COLUMNS_SWAPPED ==
    <<"Vol_Z_1H", "Vol_Z_1D", "Vol_Z_4H", "Elasticity_1H", "day_of_week",
      "hour_of_day">>

\* FEATURE_COLUMNS of the trainer, the manifest's "inputs".
FEATURE_COLUMNS ==
    <<"Vol_Z_1H", "Vol_Z_4H", "Vol_Z_1D", "Elasticity_1H", "day_of_week",
      "hour_of_day">>

\* predict's fallback feature order.
LegacyOrder == <<"Vol_Z", "Elasticity", "day_of_week", "hour_of_day">>

ManifestFiles == {Absent, JsonFile([inputs |-> FEATURE_COLUMNS])}

\* No model under a key of self._models.
None == [loaded |-> FALSE, m |-> NoModel]
Loaded(m) == [loaded |-> TRUE, m |-> m]

\* No entry for the symbol in self._feature_names.
Unset == [set |-> FALSE, names |-> <<>>]

\* The feature dictionary DataFetcher._calculate_features makes, with the
\* 1H volume z-score v and the hour h (in halves).
FeatureDict(v, h) ==
    [Vol_Z_1H |-> v, Vol_Z_4H |-> 0, Vol_Z_1D |-> 0, Elasticity_1H |-> 1,
     day_of_week |-> 4, hour_of_day |-> h, Vol_Z |-> v, Elasticity |-> 1,
     Open |-> 200, High |-> 202, Low |-> 198, Close |-> 200, Volume |-> 2000]

FeatureDicts == {FeatureDict(6, 20), FeatureDict(14, 20)}

InitInfer ==
    /\ files = [h \in Horizons |-> Absent]
    /\ manifest = Absent
    /\ _models = [h \in Horizons |-> None]
    /\ _feature_names = Unset
    /\ fresh = TRUE
    /\ last = [op |-> "init", res |-> Return(0)]

\* json.load and XGBoostModel.from_json on one model file, inside the
\* try of load_models.
LoadOne(f) ==
    IF f.state = "absent" THEN Raise("absent")
    ELSE IF f.state = "corrupt" THEN Raise("JSONDecodeError")
    ELSE ModelFromJson(f.json)

\* ModelInference.load_models(symbol): a horizon whose file loads replaces
\* its entry of self._models; any other horizon keeps the entry it had.
load_models ==
    /\ _models' = [h \in Horizons |->
                    IF LoadOne(files[h]).k = "return"
                    THEN Loaded(LoadOne(files[h]).val)
                    ELSE _models[h]]
    /\ _feature_names' =
            IF manifest.state = "json"
            THEN [set |-> TRUE,
                  names |-> Get(manifest.json, "inputs",
                                Get(manifest.json, "names", <<>>))]
            ELSE _feature_names
    /\ last' = [op |-> "load",
                res |-> Return([h \in Horizons |->
                                  LoadOne(files[h]).k = "return"])]
    /\ fresh' = TRUE
    /\ UNCHANGED <<files, manifest, features, treeVars, ensVars, lblVars,
                 engVars>>

\* "feature_list = [features.get(f, 0.0) for f in feature_order]".
FeatureList(fd, order) == [i \in 1..Len(order) |-> Get(fd, order[i], 0)]

\* The horizon loop of predict: the first model that raises ends the call.
RECURSIVE PredictFrom(_, _, _, _)
PredictFrom(ms, fl, i, results) ==
    IF i > Len(HORIZONS) THEN Return(results)
    ELSE LET h == HORIZONS[i] IN
         IF ~ms[h].loaded
         THEN PredictFrom(ms, fl, i + 1, [hh \in DOMAIN results \cup {h} |->
                            IF hh = h THEN 0 ELSE results[hh]])
         ELSE LET prob == PredictProba(ms[h].m, fl) IN
              IF prob.k # "return" THEN prob
              ELSE PredictFrom(ms, fl, i + 1,
                        [hh \in DOMAIN results \cup {h} |->
                            IF hh = h THEN prob.val ELSE results[hh]])

\* ModelInference.predict(symbol, features).
predict ==
    \E fd \in FeatureDicts :
        /\ last' = [op |-> "predict",
                    res |-> PredictFrom(_models,
                              FeatureList(fd, IF _feature_names.set
                                              THEN _feature_names.names
                                              ELSE LegacyOrder),
                              1, EmptyDict)]
        /\ UNCHANGED <<files, manifest, _models, _feature_names, fresh,
                       features, treeVars, ensVars, lblVars, engVars>>

\* The package directory changes under the app: a model file is put,
\* replaced or removed.
put_model_file ==
    \E h \in Horizons, f \in ModelFiles :
        /\ files[h] # f
        /\ files' = [files EXCEPT ![h] = f]
        /\ fresh' = FALSE
        /\ last' = [op |-> "file", res |-> Return(0)]
        /\ UNCHANGED <<manifest, _models, _feature_names, features, treeVars,
                       ensVars, lblVars, engVars>>

\* features.json is put, replaced or removed.
put_manifest ==
    \E f \in ManifestFiles :
        /\ manifest # f
        /\ manifest' = f
        /\ fresh' = FALSE
        /\ last' = [op |-> "file", res |-> Return(0)]
        /\ UNCHANGED <<files, _models, _feature_names, features, treeVars,
                       ensVars, lblVars, engVars>>

NextInfer == load_models \/ predict \/ put_model_file \/ put_manifest

\* ------------------------------------------------------------------------
\* StockEngine._create_targets
\* ------------------------------------------------------------------------

\* Most rows of a table handed to _create_targets.
MaxRows == 37

\* TARGETS of ml/stock_engine.py; thresh in thousandths.
TARGETS ==
    [h \in Horizons |->
        CASE h = "4H" -> [col |-> "T_4H", thresh |-> 15, horizon |-> 4]
          [] h = "2D" -> [col |-> "T_2D", thresh |-> 30, horizon |-> 14]
          [] h = "5D" -> [col |-> "T_5D", thresh |-> 50, horizon |-> 35]]


\* A cell of a pandas column: a number or NaN.
Cell(v) == [nan |-> FALSE, v |-> v]
NaN == [nan |-> TRUE, v |-> 0]

\* Series.shift(-h) at row i: the value h rows on, NaN past the end.
ShiftBack(col, h, i) == IF i + h <= Len(col) THEN Cell(col[i + h]) ELSE NaN

\* A slip in the label test: a close just at the threshold labelled 1.
ExceedsOrEquals(shifted, close, t) ==
    ~shifted.nan /\ shifted.v * 1000 >= close * (1000 + t)

\* "shifted > Close * thresh" for thresh = 1.0 + t/1000, both sides taken
\* a thousandfold; a comparison with NaN is False.
Exceeds(shifted, close, t) ==
    ~shifted.nan /\ shifted.v * 1000 > close * (1000 + t)

\* .astype(int) of a boolean.
AsInt(b) == IF b THEN 1 ELSE 0

\* The label column of one horizon.
TargetColumn(col, p) ==
    [i \in 1..Len(col) |->
        Cell(AsInt(Exceeds(ShiftBack(col, p.horizon, i), col[i], p.thresh)))]

\* DataFrame.dropna(): the rows without a NaN cell, in their order.
RECURSIVE DropNa(_)
DropNa(rows) ==
    IF Len(rows) = 0 THEN <<>>
    ELSE LET r == Head(rows) IN
         IF r.Close.nan \/ r.T_4H.nan \/ r.T_2D.nan \/ r.T_5D.nan
         THEN DropNa(Tail(rows))
         ELSE <<r>> \o DropNa(Tail(rows))

\* _create_targets(df): rows carry their index label idx.
CreateTargets(col) ==
    DropNa([i \in 1..Len(col) |->
              [idx |-> i,
               Close |-> Cell(col[i]),
               T_4H |-> TargetColumn(col, TARGETS["4H"])[i],
               T_2D |-> TargetColumn(col, TARGETS["2D"])[i],
               T_5D |-> TargetColumn(col, TARGETS["5D"])[i]]])

\* Close prices before and from a move: flat, just at and just over each
\* horizon's threshold, and a fall.  The float product Close * thresh of
\* the code is exact for each of them (2200 * 1.015 == 2233.0).
PriceMoves ==
    {<<2200, 2200>>, <<2200, 2233>>, <<2200, 2234>>, <<2200, 2266>>,
     <<2200, 2267>>, <<2200, 2310>>, <<2200, 2311>>, <<2200, 2000>>}

\* n rows at the price m[1] that step to m[2] at row j and stay there.
StepTable(n, j, m) == [i \in 1..n |-> IF i < j THEN m[1] ELSE m[2]]

\* n rows at the price m[1] with the single row j at m[2].
SpikeTable(n, j, m) == [i \in 1..n |-> IF i = j THEN m[2] ELSE m[1]]

CloseTables ==
    UNION {{StepTable(n, j, m) : j \in 1..n, m \in PriceMoves} \cup
           {SpikeTable(n, j, m) : j \in 1..n, m \in PriceMoves}
           : n \in 0..MaxRows} \cup {<<>>}

InitLabels ==
    /\ df \in CloseTables
    /\ labelled = <<>>
    /\ lpc = "ready"

\* StockEngine._create_targets(df).
_create_targets ==
    /\ lpc = "ready"
    /\ labelled' = CreateTargets(df)
    /\ lpc' = "done"
    /\ UNCHANGED <<df, features, treeVars, ensVars, infVars,
                 engVars>>

NextLabels == _create_targets

\* ------------------------------------------------------------------------
\* Floating-point values of the feature builders
\* ------------------------------------------------------------------------

\* A z-score is a ratio of a rational and the square root of a rational, so a
\* finite value is kept as s * sqrt(n / d): its sign s and its square n / d in
\* lowest terms.  Products and quotients of such values are exact.
Sign(x) == IF x > 0 THEN 1 ELSE IF x < 0 THEN -1 ELSE 0

RECURSIVE GCD(_, _)
GCD(a, b) == IF b = 0 THEN a ELSE GCD(b, a % b)

Root(s, n, d) ==
    IF s = 0 \/ n = 0 THEN [k |-> "fin", s |-> 0, n |-> 0, d |-> 1]
    ELSE LET g == GCD(n, d)
         IN [k |-> "fin", s |-> s, n |-> n \div g, d |-> d \div g]

\* The float p / q of two integers, q # 0.
Ratio(p, q) == Root(Sign(p) * Sign(q), p * p, q * q)

NotANumber == [k |-> "nan", s |-> 0, n |-> 0, d |-> 1]
Infinite(s) == [k |-> "inf", s |-> s, n |-> 0, d |-> 1]

IsFinite(x) == x.k = "fin"
IsZero(x) == x.k = "fin" /\ x.s = 0

\* a / b of two float columns: numpy raises nothing on a zero divisor, it
\* gives an infinity, and NaN for 0 / 0 and inf / inf.
Divide(a, b) ==
    IF a.k = "nan" \/ b.k = "nan" THEN NotANumber
    ELSE IF a.k = "inf"
         THEN IF b.k = "inf" THEN NotANumber
              ELSE Infinite(a.s * (IF b.s < 0 THEN -1 ELSE 1))
    ELSE IF b.k = "inf" THEN Ratio(0, 1)
    ELSE IF b.s = 0
         THEN IF a.s = 0 THEN NotANumber ELSE Infinite(a.s)
    ELSE Root(a.s * b.s, a.n * b.d, a.d * b.n)

\* Series.replace(0, v), Series.fillna(v), replace([inf, -inf], v).
Replace0(x, v) == IF IsZero(x) THEN v ELSE x
FillNa(x, v) == IF x.k = "nan" THEN v ELSE x
ReplaceInf(x, v) == IF x.k = "inf" THEN v ELSE x

RECURSIVE SumOf(_)
SumOf(w) == IF w = <<>> THEN 0 ELSE Head(w) + SumOf(Tail(w))

RECURSIVE SumOfSquares(_)
SumOfSquares(w) ==
    IF w = <<>> THEN 0 ELSE Head(w) * Head(w) + SumOfSquares(Tail(w))

\* The rows Series.rolling(window) sees at row i: the window rows ending at
\* i, fewer at the start of the series.
Window(col, i, window) ==
    SubSeq(col, IF i > window THEN i - window + 1 ELSE 1, i)

\* col[i] - rolling(window, min_periods).mean()[i]; the mean is NaN while
\* the window holds fewer than min_periods rows.
LessRollingMean(col, i, window, min_periods) ==
    LET w == Window(col, i, window)
    IN IF Len(w) < min_periods THEN NotANumber
       ELSE Ratio(Len(w) * col[i] - SumOf(w), Len(w))

\* rolling(window, min_periods).std()[i]: the sample deviation (ddof = 1),
\* NaN for fewer than min_periods rows and for a single row.
RollingStd(col, i, window, min_periods) ==
    LET w == Window(col, i, window)
        n == Len(w)
        v == n * SumOfSquares(w) - SumOf(w) * SumOf(w)
    IN IF n < min_periods \/ n < 2 THEN NotANumber
       ELSE Root(Sign(v), v, n * (n - 1))

\* ------------------------------------------------------------------------
\* The feature builders: StockEngine.calculate_features (desktop) and
\* DataFetcher._calculate_features (on-device)
\* ------------------------------------------------------------------------

VOL_Z_WINDOW == 20

\* DataFetcher._calculate_features' "window = 60".
window == 60

\* A DataFrame: its columns and its rows in index order.  A row holds its
\* timestamp ts, in hours since a Monday 00:00, and integer prices and volume.
OHLCV == {"Open", "High", "Low", "Close", "Volume"}
Frame(cols, rows) == [columns |-> cols, rows |-> rows]

\* pd.DataFrame(): no column, no row.
EmptyFrame == Frame({}, <<>>)

\* df.empty
IsEmpty(f) == f.columns = {} \/ f.rows = <<>>

Column(f, name) == [i \in 1..Len(f.rows) |-> f.rows[i][name]]

dayofweek(ts) == (ts \div 24) % 7
hour(ts) == ts % 24

\* df['Close'].pct_change() at row i: Close[i] / Close[i-1] - 1, NaN at the
\* first row.
PctChange(close, i) ==
    IF i = 1 THEN NotANumber
    ELSE IF close[i - 1] = 0
         THEN IF close[i] = 0 THEN NotANumber ELSE Infinite(Sign(close[i]))
    ELSE Ratio(close[i] - close[i - 1], close[i - 1])

\* (df['Volume'] - vol_mean) / vol_std of calculate_features at row i.
DeskVolZ(volume, i) ==
    Divide(LessRollingMean(volume, i, VOL_Z_WINDOW, VOL_Z_WINDOW),
           Replace0(RollingStd(volume, i, VOL_Z_WINDOW, VOL_Z_WINDOW),
                    Ratio(1, 1)))

\* df['Close'].pct_change() / vol_z_safe at row i, for the column vol_z.
DeskElasticity(close, vol_z, i) ==
    Divide(PctChange(close, i), Replace0(vol_z[i], Ratio(1, 1)))

\* df.replace([np.inf, -np.inf], 0).fillna(0) on one cell.
Sanitize(x) == FillNa(ReplaceInf(x, Ratio(0, 1)), Ratio(0, 1))

\* StockEngine.calculate_features(df).
CalculateFeatures(f) ==
    IF IsEmpty(f) THEN f
    ELSE LET close == Column(f, "Close")
             volume == Column(f, "Volume")
             vol_z == [i \in 1..Len(f.rows) |-> DeskVolZ(volume, i)]
         IN Frame(f.columns \cup {"Vol_Z", "Elasticity", "day_of_week",
                                  "hour_of_day"},
                  [i \in 1..Len(f.rows) |->
                      [ts |-> f.rows[i].ts,
                       Open |-> f.rows[i].Open,
                       High |-> f.rows[i].High,
                       Low |-> f.rows[i].Low,
                       Close |-> f.rows[i].Close,
                       Volume |-> f.rows[i].Volume,
                       Vol_Z |-> Sanitize(vol_z[i]),
                       Elasticity |-> Sanitize(DeskElasticity(close, vol_z, i)),
                       day_of_week |-> dayofweek(f.rows[i].ts),
                       hour_of_day |-> hour(f.rows[i].ts)]])

\* df.resample(rule).agg({..., 'volume': 'sum'}).dropna(): the volume summed
\* over each bin of width hours that holds a row, in time order.
RECURSIVE ResampleVolume(_, _)
ResampleVolume(rows, width) ==
    IF rows = <<>> THEN <<>>
    ELSE LET n == Len(rows)
             before == ResampleVolume(SubSeq(rows, 1, n - 1), width)
         IN IF n > 1 /\ rows[n - 1].ts \div width = rows[n].ts \div width
            THEN [before EXCEPT ![Len(before)] = @ + rows[n].Volume]
            ELSE Append(before, rows[n].Volume)

\* (volume - r.mean()) / std at the last row, for
\* r = rolling(window, min_periods=1) and std = r.std().fillna(1.0).replace(0, 1.0).
MobVolZ(volume) ==
    LET i == Len(volume)
    IN Divide(LessRollingMean(volume, i, window, 1),
              Replace0(FillNa(RollingStd(volume, i, window, 1), Ratio(1, 1)),
                       Ratio(1, 1)))

\* The "safe default" of _calculate_features' except branch.
DefaultFeatures ==
    [Vol_Z_1H |-> Ratio(0, 1), Vol_Z_4H |-> Ratio(0, 1),
     Vol_Z_1D |-> Ratio(0, 1), Elasticity_1H |-> Ratio(0, 1),
     day_of_week |-> 0, hour_of_day |-> 0,
     Vol_Z |-> Ratio(0, 1), Elasticity |-> Ratio(0, 1),
     Open |-> Ratio(0, 1), High |-> Ratio(0, 1), Low |-> Ratio(0, 1),
     Close |-> Ratio(0, 1), Volume |-> Ratio(0, 1)]

\* DataFetcher._calculate_features(df).  A frame without the price columns
\* raises KeyError at df['high'], one without rows IndexError at
\* df.index[-1]; both end in the except branch.
MobileFeatures(f) ==
    IF IsEmpty(f) THEN DefaultFeatures
    ELSE LET n == Len(f.rows)
             r == f.rows[n]
             elasticity == Divide(Ratio(r.High - r.Low, 1), Ratio(r.Close, 1))
             vol_z == MobVolZ(Column(f, "Volume"))
         IN [Vol_Z_1H |-> vol_z,
             Vol_Z_4H |-> MobVolZ(ResampleVolume(f.rows, 4)),
             Vol_Z_1D |-> MobVolZ(ResampleVolume(f.rows, 24)),
             Elasticity_1H |-> elasticity,
             day_of_week |-> dayofweek(r.ts),
             hour_of_day |-> hour(r.ts),
             Vol_Z |-> vol_z,
             Elasticity |-> elasticity,
             Open |-> Ratio(r.Open, 1), High |-> Ratio(r.High, 1),
             Low |-> Ratio(r.Low, 1), Close |-> Ratio(r.Close, 1),
             Volume |-> Ratio(r.Volume, 1)]

\* The longest series handed to the feature builders.
MaxBars == 62

\* A bar at hour ts: it opens and closes at close, spans spread above it.
Bar(ts, close, spread, volume) ==
    [ts |-> ts, Open |-> close, High |-> close + spread, Low |-> close,
     Close |-> close, Volume |-> volume]

\* The rows of a series worth telling apart: its ends, and the rows just
\* inside and just outside the two rolling windows that end at its last row.
Spots(n) ==
    {1, 2, n - window, n - window + 1, n - VOL_Z_WINDOW,
     n - VOL_Z_WINDOW + 1, n - 1, n} \cap (1..n)

\* How the row at the spot differs from the others: <<close, spread, volume>>
\* at the spot and from it on ("step") or at the spot alone ("spike").
Quiet == <<5, 1, 2>>
Moves ==
    {<<5, 1, 2>>, <<5, 1, 5>>, <<5, 1, 0>>, <<6, 1, 2>>, <<0, 1, 2>>,
     <<0, 0, 2>>, <<0, 1, 5>>}

\* n hourly bars from hour start on.
Series(n, start, spot, move, shape) ==
    [i \in 1..n |->
        LET m == IF i = spot \/ (shape = "step" /\ i > spot)
                 THEN move ELSE Quiet
        IN Bar(start + i - 1, m[1], m[2], m[3])]

\* The series start at a Monday 00:00 or at the Tuesday 22:00 after it.
Starts == {0, 46}

BarFrames ==
    {EmptyFrame, Frame(OHLCV, <<>>)} \cup
    {Frame(OHLCV, Series(n, start, spot, move, shape)) :
        n \in 1..MaxBars, start \in Starts, spot \in {1, 2, 3},
        move \in {Quiet}, shape \in {"step"}} \cup
    UNION {{Frame(OHLCV, Series(n, start, spot, move, shape)) :
                spot \in Spots(n), move \in Moves, shape \in {"step", "spike"},
                start \in Starts}
           : n \in 1..MaxBars}

NotBuilt(out) == [done |-> FALSE, out |-> out]
Built(out) == [done |-> TRUE, out |-> out]

InitFeatures ==
    /\ bars \in BarFrames
    /\ desk = NotBuilt(EmptyFrame)
    /\ mob = NotBuilt(DefaultFeatures)

\* StockEngine.calculate_features(bars).
calculate_features ==
    /\ ~desk.done
    /\ desk' = Built(CalculateFeatures(bars))
    /\ UNCHANGED <<bars, mob, coreVars, mrgVars, trnVars, model_dir, expVars,
                   pkgVars, appVars>>

\* DataFetcher._calculate_features(bars).
_calculate_features ==
    /\ ~mob.done
    /\ mob' = Built(MobileFeatures(bars))
    /\ UNCHANGED <<bars, desk, coreVars, mrgVars, trnVars, model_dir, expVars,
                   pkgVars, appVars>>

NextFeatures == calculate_features \/ _calculate_features

\* ------------------------------------------------------------------------
\* StockEngine._merge_timeframes
\* ------------------------------------------------------------------------

Timestamps(f) == [i \in 1..Len(f.rows) |-> f.rows[i].ts]

\* Index.is_monotonic_increasing or is_monotonic_decreasing
IsMonotonic(index) ==
    \/ \A i \in 1..(Len(index) - 1) : index[i] <= index[i + 1]
    \/ \A i \in 1..(Len(index) - 1) : index[i] >= index[i + 1]

\* Index.is_unique
IsUnique(index) ==
    \A i, j \in 1..Len(index) : i # j => index[i] # index[j]

\* A slip in the forward fill: a bar known only after its own hour.
PadFromEarlier(index, ts) ==
    LET before == {i \in 1..Len(index) : index[i] < ts}
    IN IF before = {} THEN 0
       ELSE CHOOSE i \in before : \A j \in before : j <= i

\* The position an ascending index pads the label ts from: the last one at
\* or before it, 0 when there is none.
PadFrom(index, ts) ==
    LET before == {i \in 1..Len(index) : index[i] <= ts}
    IN IF before = {} THEN 0
       ELSE CHOOSE i \in before : \A j \in before : j <= i

\* d['Vol_Z'].reindex(index, method='ffill').fillna(0): the column itself
\* when the two indexes are equal; otherwise an index with duplicates or out
\* of order raises ValueError, and a label without an earlier row gets NaN.
ReindexFfill(d, index) ==
    IF Timestamps(d) = index
    THEN Return([i \in 1..Len(index) |-> FillNa(d.rows[i].Vol_Z, Ratio(0, 1))])
    ELSE IF ~IsUnique(Timestamps(d)) THEN Raise("ValueError")
    ELSE IF index = <<>> THEN Return(<<>>)
    ELSE IF ~IsMonotonic(Timestamps(d)) THEN Raise("ValueError")
    ELSE Return([i \in 1..Len(index) |->
                    LET from == PadFrom(Timestamps(d), index[i])
                    IN IF from = 0 THEN Ratio(0, 1)
                       ELSE FillNa(d.rows[from].Vol_Z, Ratio(0, 1))])

\* The column _merge_timeframes gives the series d: the reindexed Vol_Z, or
\* 0 throughout "if d.empty or 'Vol_Z' not in d.columns".
MergedColumn(d, index) ==
    IF ~IsEmpty(d) /\ "Vol_Z" \in d.columns
    THEN ReindexFfill(d, index)
    ELSE Return([i \in 1..Len(index) |-> Ratio(0, 1)])

\* df_1h.copy().rename(columns={'Vol_Z': 'Vol_Z_1H', 'Elasticity': 'Elasticity_1H'})
Rename(columns) ==
    (columns \ {"Vol_Z", "Elasticity"})
    \cup (IF "Vol_Z" \in columns THEN {"Vol_Z_1H"} ELSE {})
    \cup (IF "Elasticity" \in columns THEN {"Elasticity_1H"} ELSE {})

\* StockEngine._merge_timeframes(a, b, c) for the 1H series a, the 4H series
\* b and the 1D series c; the 1D column is made first.
MergeTimeframes(a, b, c) ==
    LET index == Timestamps(a)
        col_1d == MergedColumn(c, index)
        col_4h == MergedColumn(b, index)
    IN IF col_1d.k # "return" THEN col_1d
       ELSE IF col_4h.k # "return" THEN col_4h
       ELSE Return(Frame(Rename(a.columns) \cup {"Vol_Z_1D", "Vol_Z_4H"},
                [i \in 1..Len(a.rows) |->
                    [ts |-> a.rows[i].ts,
                     Open |-> a.rows[i].Open,
                     High |-> a.rows[i].High,
                     Low |-> a.rows[i].Low,
                     Close |-> a.rows[i].Close,
                     Volume |-> a.rows[i].Volume,
                     Vol_Z_1H |-> a.rows[i].Vol_Z,
                     Elasticity_1H |-> a.rows[i].Elasticity,
                     day_of_week |-> a.rows[i].day_of_week,
                     hour_of_day |-> a.rows[i].hour_of_day,
                     Vol_Z_1D |-> col_1d.val[i],
                     Vol_Z_4H |-> col_4h.val[i]]]))

\* The most rows of a series handed to _merge_timeframes.
MaxMergeRows == 4

FeatureColumnsOf(cols) ==
    cols \cup {"Vol_Z", "Elasticity", "day_of_week", "hour_of_day"}

\* A row as calculate_features leaves it, with the z-score z.
FeatureRow(ts, z) ==
    [ts |-> ts, Open |-> 5, High |-> 6, Low |-> 5, Close |-> 5, Volume |-> 2,
     Vol_Z |-> Ratio(z, 1), Elasticity |-> Ratio(0, 1),
     day_of_week |-> dayofweek(ts), hour_of_day |-> hour(ts)]

\* The series with the timestamps stamps, the row at position i with the
\* z-score base + i.
FeatureFrame(stamps, base) ==
    Frame(FeatureColumnsOf(OHLCV),
          [i \in 1..Len(stamps) |-> FeatureRow(stamps[i], base + i)])

\* The same rows before calculate_features: no Vol_Z column.
RawFrame(stamps) ==
    Frame(OHLCV, [i \in 1..Len(stamps) |-> Bar(stamps[i], 5, 1, 2)])

\* Missing cache, cache without rows, and n hourly rows from three hours.
HourlyFrames ==
    {EmptyFrame, Frame(OHLCV, <<>>)} \cup
    {FeatureFrame([i \in 1..n |-> start + i - 1], 10) :
        n \in 1..MaxMergeRows, start \in {0, 3, 23}}

\* Timestamps of lower-frequency series in units of their bar: in order, with
\* a gap, and as a first fetch may leave them, out of order or twice.
LowerStamps ==
    {<<0>>, <<1>>, <<0, 1>>, <<1, 2>>, <<0, 2>>, <<0, 1, 2>>,
     <<1, 0, 2>>, <<0, 1, 1>>}

LowerFrames(bar, base) ==
    {EmptyFrame, Frame(OHLCV, <<>>)} \cup
    {FeatureFrame([i \in 1..Len(st) |-> bar * st[i]], base) : st \in LowerStamps}
    \cup {RawFrame(<<0, bar>>)}

NotMerged == [done |-> FALSE, res |-> Return(EmptyFrame)]

InitMerge ==
    /\ df_1h \in HourlyFrames
    /\ df_4h \in LowerFrames(4, 40)
    /\ df_1d \in LowerFrames(24, 240)
    /\ merged = NotMerged

\* StockEngine._merge_timeframes(df_1h, df_4h, df_1d).
_merge_timeframes ==
    /\ ~merged.done
    /\ merged' = [done |-> TRUE, res |-> MergeTimeframes(df_1h, df_4h, df_1d)]
    /\ UNCHANGED <<df_1h, df_4h, df_1d, coreVars, featVars, trnVars,
                   model_dir, expVars, pkgVars, appVars>>

NextMerge == _merge_timeframes

\* ------------------------------------------------------------------------
\* StockEngine.train_model and run_inference
\* ------------------------------------------------------------------------

Symbols == {"AAA", "BBB"}
Timeframes == {"1H", "4H", "1D"}

\* <symbol>_<timeframe>.csv in data_dir: not there, there without a byte,
\* or holding the frame pd.read_csv gives.
MissingFile == [state |-> "missing", frame |-> EmptyFrame]
BlankFile == [state |-> "blank", frame |-> EmptyFrame]
CsvFile(f) == [state |-> "csv", frame |-> f]

\* StockEngine._load_cached_data(symbol) on the symbol's files: an empty
\* DataFrame for a missing file; read_csv raises on a file without a byte.
LoadCachedData(csvs) ==
    IF \E tf \in Timeframes : csvs[tf].state = "blank"
    THEN Raise("EmptyDataError")
    ELSE Return([tf \in Timeframes |->
                    IF csvs[tf].state = "missing" THEN EmptyFrame
                    ELSE csvs[tf].frame])

\* self._merge_timeframes(self.calculate_features(df_1h),
\* self.calculate_features(df_4h), self.calculate_features(df_1d)).dropna():
\* no cell is NaN after calculate_features, so dropna drops no row.
MergedFeatures(dfs) ==
    MergeTimeframes(CalculateFeatures(dfs["1H"]), CalculateFeatures(dfs["4H"]),
                    CalculateFeatures(dfs["1D"]))

\* "if len(df_model) < 50"
MinRows == 50

Failure(msg, err) ==
    [ok |-> FALSE, msg |-> msg, err |-> err, rows |-> 0, counts |-> <<>>]

\* "Insufficient data (Rows: n). Need 50+. 1H:a, 4H:b, 1D:c"
Insufficient(n, dfs) ==
    [ok |-> FALSE, msg |-> "Insufficient data", err |-> "", rows |-> n,
     counts |-> [tf \in Timeframes |-> Len(dfs[tf].rows)]]

Trained ==
    [ok |-> TRUE, msg |-> "Probability Models Trained", err |-> "",
     rows |-> 0, counts |-> <<>>]

\* train_model up to its row check: what it returns there, or the labelled
\* table it goes on to fit.  An exception ends in "Training Error: ...";
\* a merged table without a Close column raises KeyError in _create_targets.
Prepare(csvs) ==
    LET loaded == LoadCachedData(csvs)
    IN IF loaded.k # "return"
       THEN [go |-> FALSE, res |-> Failure("Training Error", loaded.err),
             table |-> <<>>]
       ELSE LET df_m == MergedFeatures(loaded.val)
            IN IF df_m.k # "return"
               THEN [go |-> FALSE, res |-> Failure("Training Error", df_m.err),
                     table |-> <<>>]
               ELSE IF "Close" \notin df_m.val.columns
               THEN [go |-> FALSE, res |-> Failure("Training Error", "KeyError"),
                     table |-> <<>>]
               ELSE LET table == CreateTargets(Column(df_m.val, "Close"))
                    IN IF Len(table) < MinRows
                       THEN [go |-> FALSE,
                             res |-> Insufficient(Len(table), loaded.val),
                             table |-> <<>>]
                       ELSE [go |-> TRUE, res |-> Trained, table |-> table]

\* A slip in the loop: the last horizon is never fitted.
FitOrderWithout5D == <<"4H", "2D">>

\* "for key in TARGETS": the order the horizons are fitted and saved in.
FitOrder == <<"4H", "2D", "5D">>

\* Whether the label column of horizon key holds a single class.
SingleClass(table, key) ==
    \A i, j \in 1..Len(table) :
        table[i][TARGETS[key].col].v = table[j][TARGETS[key].col].v

\* The most hourly rows of a cached series handed to train_model.
MaxTrainRows == 51

\* What <symbol>_<key>.json in model_dir holds: one of two ensembles, or
\* "none" while there is no such file.
Ensembles == {"e1", "e2"}
NoEnsemble == "none"

\* The ensemble model.fit gives on the caches of a symbol.
Fitted == "e1"

\* model_dir without a file of the symbol; token tells whether
\* <symbol>_multi_prob.onnx is there.
NoModels == [models |-> [k \in Horizons |-> NoEnsemble], token |-> FALSE]

Idle ==
    [at |-> "idle", symbol |-> "", i |-> 0,
     single |-> [k \in Horizons |-> FALSE]]

NoResult == [ok |-> FALSE, msg |-> "", err |-> "", rows |-> 0, counts |-> <<>>]

\* train_model(symbol) from its call to its row check.
TrainModel(symbol) ==
    LET p == Prepare(data_dir[symbol])
    IN IF p.go
       THEN /\ tpc' = [at |-> "fit", symbol |-> symbol, i |-> 1,
                       single |-> [k \in Horizons |->
                                      SingleClass(p.table, k)]]
            /\ UNCHANGED trained
       ELSE /\ trained' = [trained EXCEPT ![symbol] = p.res]
            /\ UNCHANGED tpc

\* train_model called while no training runs.
train_model ==
    /\ tpc.at = "idle"
    /\ \E symbol \in Symbols : TrainModel(symbol)
    /\ UNCHANGED <<data_dir, inferred, model_dir, coreVars, featVars, mrgVars,
                   expVars, pkgVars, appVars>>

\* One round of train_model's loop: model.fit, which may raise on a label
\* column of a single class, then model.save_model.
fit_and_save ==
    /\ tpc.at = "fit"
    /\ tpc.i <= Len(FitOrder)
    /\ LET key == FitOrder[tpc.i]
       IN \/ /\ model_dir' = [model_dir EXCEPT
                                 ![tpc.symbol].models[key] = Fitted]
             /\ tpc' = [tpc EXCEPT !.i = tpc.i + 1]
             /\ UNCHANGED trained
          \/ /\ tpc.single[key]
             /\ trained' = [trained EXCEPT ![tpc.symbol] =
                               Failure("Training Error", "XGBoostError")]
             /\ tpc' = Idle
             /\ UNCHANGED model_dir
    /\ UNCHANGED <<data_dir, inferred, coreVars, featVars, mrgVars, expVars,
                   pkgVars, appVars>>

\* The end of train_model: the token file, and the success it returns.
train_return ==
    /\ tpc.at = "fit"
    /\ tpc.i > Len(FitOrder)
    /\ model_dir' = [model_dir EXCEPT ![tpc.symbol].token = TRUE]
    /\ trained' = [trained EXCEPT ![tpc.symbol] = Trained]
    /\ tpc' = Idle
    /\ UNCHANGED <<data_dir, inferred, coreVars, featVars, mrgVars, expVars,
                   pkgVars, appVars>>

\* What booster.predict gives for a binary:logistic model, in thousandths:
\* a float32 sigmoid, from 0.0 to 1.0; the two ends stand for the range.
Probabilities == {0, 1000}

NoProbs == [k \in Horizons |-> 0]

InferenceFailure(symbol, error) ==
    [called |-> TRUE, symbol |-> symbol, ok |-> FALSE, error |-> error,
     keys |-> {}, probs |-> NoProbs]

\* results: prob_4h, prob_2d, prob_5d.
InferenceResults(symbol, probs) ==
    [called |-> TRUE, symbol |-> symbol, ok |-> TRUE, error |-> "",
     keys |-> {"prob_4h", "prob_2d", "prob_5d"}, probs |-> probs]

NotRun ==
    [called |-> FALSE, symbol |-> "", ok |-> FALSE, error |-> "",
     keys |-> {}, probs |-> NoProbs]

\* run_inference(symbol) on the files as they are.
RunInference(symbol) ==
    LET saved == model_dir[symbol].models
        csvs == data_dir[symbol]
        loaded == LoadCachedData(csvs)
    IN IF \E k \in Horizons : saved[k] = NoEnsemble
       THEN inferred' = InferenceFailure(symbol, "Model not found")
       ELSE IF csvs["1H"].state = "missing"
       THEN inferred' = InferenceFailure(symbol, "No data found")
       ELSE IF loaded.k # "return"
       THEN inferred' = InferenceFailure(symbol, loaded.err)
       ELSE LET df_m == MergedFeatures(loaded.val)
            IN IF df_m.k # "return"
               THEN inferred' = InferenceFailure(symbol, df_m.err)
               ELSE IF IsEmpty(df_m.val)
               THEN inferred' = InferenceFailure(symbol, "Insufficient data")
               ELSE \E probs \in [Horizons -> Probabilities] :
                       inferred' = InferenceResults(symbol, probs)

\* run_inference called while no training runs.
run_inference ==
    /\ tpc.at = "idle"
    /\ \E symbol \in Symbols : RunInference(symbol)
    /\ UNCHANGED <<data_dir, tpc, trained, model_dir, coreVars, featVars,
                   mrgVars, expVars, pkgVars, appVars>>

\* Hourly bars with a step of the close at the row spot, or flat for spot 0.
Hourly(n, spot) ==
    Frame(OHLCV, Series(n, 0, spot, IF spot = 0 THEN Quiet ELSE <<6, 1, 5>>,
                        "step"))

\* Bars every width hours from hour 0 on, in the order of stamps.
Sampled(stamps, width) ==
    Frame(OHLCV, [i \in 1..Len(stamps) |-> Bar(width * stamps[i], 5, 1, 2 + i)])

\* StockEngine's three caches of one symbol.
Caches(h, f, d) ==
    [tf \in Timeframes |-> IF tf = "1H" THEN h ELSE IF tf = "4H" THEN f ELSE d]

HourlyFiles ==
    {MissingFile, BlankFile, CsvFile(Frame(OHLCV, <<>>))}
    \cup {CsvFile(Hourly(n, spot)) :
             n \in {MinRows - 1, MinRows, MaxTrainRows}, spot \in {0, 40}}

FourHourFiles ==
    {MissingFile, CsvFile(Sampled(<<0, 1, 2>>, 4)),
     CsvFile(Sampled(<<1, 0, 2>>, 4))}

DailyFiles == {MissingFile, BlankFile, CsvFile(Sampled(<<0, 1>>, 24))}

\* The caches of one symbol: every 1H series beside full 4H and 1D series,
\* and a 1H series of just the row minimum beside every 4H and 1D series.
CacheSets ==
    {Caches(h, CsvFile(Sampled(<<0, 1, 2>>, 4)),
            CsvFile(Sampled(<<0, 1>>, 24))) : h \in HourlyFiles}
    \cup {Caches(CsvFile(Hourly(MinRows, 40)), f, d) :
             f \in FourHourFiles, d \in DailyFiles}

\* The second symbol has no cache or a full one.
OtherCaches ==
    {Caches(MissingFile, MissingFile, MissingFile),
     Caches(CsvFile(Hourly(MinRows, 40)), CsvFile(Sampled(<<0, 1, 2>>, 4)),
            CsvFile(Sampled(<<0, 1>>, 24)))}

InitTrain ==
    /\ data_dir \in {d \in [Symbols -> CacheSets] : d["BBB"] \in OtherCaches}
    /\ model_dir = [s \in Symbols |-> NoModels]
    /\ tpc = Idle
    /\ trained = [s \in Symbols |-> NoResult]
    /\ inferred = NotRun

NextTrain == train_model \/ fit_and_save \/ train_return \/ run_inference

\* ------------------------------------------------------------------------
\* StockEngine.export_mobile_package and export_all_models
\* ------------------------------------------------------------------------

\* f"model_{k}.json"
ModelFile(k) ==
    CASE k = "4H" -> "model_4H.json"
      [] k = "2D" -> "model_2D.json"
      [] k = "5D" -> "model_5D.json"

ModelFileNames == {ModelFile(k) : k \in Horizons}

\* A slip in the message: the first horizon named whichever is missing.
MissingFirstModel(k) == "Missing 4H model"

\* f"Missing {k} model"
MissingModel(k) ==
    CASE k = "4H" -> "Missing 4H model"
      [] k = "2D" -> "Missing 2D model"
      [] k = "5D" -> "Missing 5D model"

NoManifest ==
    [written |-> FALSE, symbol |-> "", version |-> "", type |-> "",
     inputs |-> <<>>, models |-> <<>>, thresholds |-> <<>>]

\* The dictionary export_mobile_package dumps into features.json.
ManifestOf(symbol) ==
    [written |-> TRUE, symbol |-> symbol, version |-> "1.0",
     type |-> "split_prob_json", inputs |-> FEATURE_COLUMNS,
     models |-> <<"model_4H.json", "model_2D.json", "model_5D.json">>,
     thresholds |-> [k \in DOMAIN TARGETS |-> TARGETS[k].thresh]]

\* A package directory: whether it is there, its model files by name and its
\* features.json.
NoDir ==
    [exists |-> FALSE, files |-> [n \in ModelFileNames |-> NoEnsemble],
     manifest |-> NoManifest]

\* The loop of export_mobile_package from the horizon at position i on:
\* raise at the first horizon without a saved model, copy the others.
RECURSIVE CopyModels(_, _, _)
CopyModels(models, dir, i) ==
    IF i > Len(HORIZONS) THEN [k |-> "return", err |-> "", dir |-> dir]
    ELSE LET key == HORIZONS[i] IN
         IF models[key] = NoEnsemble
         THEN [k |-> "raise", err |-> MissingModel(key), dir |-> dir]
         ELSE CopyModels(models,
                         [dir EXCEPT !.files[ModelFile(key)] = models[key]],
                         i + 1)

\* export_mobile_package(symbol) on the saved models and the package
\* directory dir: what it returns or raises, and the directory after it.
ExportMobilePackage(symbol, models, dir) ==
    LET copied == CopyModels(models, [dir EXCEPT !.exists = TRUE], 1)
    IN IF copied.k = "raise" THEN copied
       ELSE [copied EXCEPT !.dir.manifest = ManifestOf(symbol)]

NotExported == [called |-> FALSE, symbol |-> "", k |-> "", err |-> ""]

export_mobile_package ==
    /\ \E symbol \in Symbols :
          LET e == ExportMobilePackage(symbol, model_dir[symbol].models,
                                       pkg_dir[symbol])
          IN /\ pkg_dir' = [pkg_dir EXCEPT ![symbol] = e.dir]
             /\ exported' = [called |-> TRUE, symbol |-> symbol, k |-> e.k,
                             err |-> e.err]
    /\ UNCHANGED <<model_dir, master_export_dir, exported_all, coreVars,
                   featVars, mrgVars, trnVars,
                   pkgVars, appVars>>

\* A slip in the listing: the 5D file taken as the mark of a trained symbol.
GetTrainedModelsBy5D(md) == {s \in Symbols : md[s].models["5D"] # NoEnsemble}

\* get_trained_models(): the symbols with a <symbol>_4H.json in model_dir.
GetTrainedModels(md) == {s \in Symbols : md[s].models["4H"] # NoEnsemble}

NoMaster == [exists |-> FALSE, pkgs |-> [s \in Symbols |-> NoDir]]

\* export_all_models(): mobile_exports is wiped and made anew, each trained
\* symbol is exported and, unless that raised, its package copied under
\* <symbol>_pkg; ValueError when none was.
export_all_models ==
    LET trained_symbols == GetTrainedModels(model_dir)
        e == [s \in trained_symbols |->
                 ExportMobilePackage(s, model_dir[s].models, pkg_dir[s])]
        valid == {s \in trained_symbols : e[s].k = "return"}
    IN /\ pkg_dir' = [s \in Symbols |->
                         IF s \in trained_symbols THEN e[s].dir ELSE pkg_dir[s]]
       /\ master_export_dir' =
             [exists |-> TRUE,
              pkgs |-> [s \in Symbols |->
                           IF s \in valid THEN e[s].dir ELSE NoDir]]
       /\ exported_all' =
             IF valid = {}
             THEN [called |-> TRUE, k |-> "raise", err |-> "ValueError"]
             ELSE [called |-> TRUE, k |-> "return", err |-> ""]
       /\ UNCHANGED <<model_dir, exported, coreVars, featVars, mrgVars, trnVars,
                      pkgVars, appVars>>

\* The three model files of a symbol, in the order of HORIZONS.
Saved(a, b, c) ==
    [k \in Horizons |-> IF k = "4H" THEN a ELSE IF k = "2D" THEN b ELSE c]

\* What model_dir may hold of the first symbol: nothing, the models of one
\* training, those of a later one, a later 4H model beside earlier ones,
\* and the models of one training with one of them removed.
SavedSets ==
    {Saved("none", "none", "none"), Saved("e1", "e1", "e1"),
     Saved("e2", "e2", "e2"), Saved("e2", "e1", "e1"),
     Saved("none", "e1", "e1"), Saved("e1", "none", "e1"),
     Saved("e1", "e1", "none")}

\* The second symbol has no model or the models of one training.
OtherSavedSets == {Saved("none", "none", "none"), Saved("e1", "e1", "e1")}

\* Model files of a symbol are saved anew or removed between the exports.
put_ensembles ==
    /\ \E symbol \in Symbols :
          \E models \in IF symbol = "AAA" THEN SavedSets ELSE OtherSavedSets :
             model_dir' = [model_dir EXCEPT ![symbol].models = models]
    /\ UNCHANGED <<expVars, coreVars, featVars, mrgVars, trnVars,
                   pkgVars, appVars>>

ExportAtRest ==
    /\ pkg_dir = [s \in Symbols |-> NoDir]
    /\ master_export_dir = NoMaster
    /\ exported = NotExported
    /\ exported_all = [called |-> FALSE, k |-> "", err |-> ""]

InitExport ==
    /\ model_dir = [s \in Symbols |-> NoModels]
    /\ ExportAtRest

NextExport == export_mobile_package \/ export_all_models \/ put_ensembles

\* ------------------------------------------------------------------------
\* ModelInference: the package directories of the app
\* ------------------------------------------------------------------------

\* Symbols and directory names are sequences of pieces: words, "." and "_".
\* str.replace(old, new) on such a name.
StrReplace(name, old, new) ==
    [i \in 1..Len(name) |-> IF name[i] = old THEN new ELSE name[i]]

\* name.endswith("_pkg")
EndsWithPkg(name) ==
    /\ Len(name) >= 2
    /\ name[Len(name) - 1] = "_"
    /\ name[Len(name)] = "pkg"

\* name[:-4].replace("_", "."): the symbol list_available_symbols and
\* delete_model_package derive from a directory name.
DerivedSymbol(name) == StrReplace(SubSeq(name, 1, Len(name) - 2), "_", ".")

\* f"{safe_symbol}_pkg" and f"{safe_symbol}_mobile_pkg"
BasePkg(symbol) == StrReplace(symbol, ".", "_") \o <<"_", "pkg">>
MobilePkg(symbol) ==
    StrReplace(symbol, ".", "_") \o <<"_", "mobile", "_", "pkg">>

\* The symbols the app is asked about.
PkgSymbols ==
    {<<"X">>, <<"X", ".", "N">>, <<"X", "_", "N">>, <<"X", ".", "mobile">>}

\* The symbols packages were exported for, one without and one with a dot.
ExportedSymbols == {<<"X">>, <<"X", ".", "N">>}

\* The package folders a picked folder may hold: f"{symbol}_pkg" of
\* export_all_models and f"{symbol}_mobile_pkg" of export_mobile_package.
SourceNames ==
    {symbol \o <<"_", "pkg">> : symbol \in ExportedSymbols}
    \cup {symbol \o <<"_", "mobile", "_", "pkg">> : symbol \in ExportedSymbols}

\* "safe_name = name.replace('.', '_')": the names in models_dir.
PkgNames == {StrReplace(name, ".", "_") : name \in SourceNames}

\* The symbol a package folder was exported for.
ExportedFor(name) ==
    CHOOSE symbol \in ExportedSymbols :
        name \in {symbol \o <<"_", "pkg">>,
                  symbol \o <<"_", "mobile", "_", "pkg">>}

\* An exported package: the three model files and features.json.
FullPackage(symbol) ==
    [exists |-> TRUE, files |-> [n \in ModelFileNames |-> "e1"],
     manifest |-> ManifestOf(symbol)]

\* The directories there are in models_dir.
Existing(dirs) == {name \in DOMAIN dirs : dirs[name].exists}

\* _get_model_pkg_path(symbol)
GetModelPkgPath(symbol, dirs) ==
    IF MobilePkg(symbol) \in Existing(dirs) THEN MobilePkg(symbol)
    ELSE BasePkg(symbol)

\* The directory at a path, NoDir when there is none.
DirAt(dirs, path) == IF path \in DOMAIN dirs THEN dirs[path] ELSE NoDir

\* list_available_symbols()
ListAvailableSymbols(dirs) ==
    {DerivedSymbol(name) : name \in {n \in Existing(dirs) : EndsWithPkg(n)}}

NotLoaded == [h \in Horizons |-> NoEnsemble]

\* SettingsScreen._import_models on a picked folder with one package.
_import_models ==
    /\ \E name \in SourceNames :
          /\ EndsWithPkg(name)
          /\ models_dir' = [models_dir EXCEPT
                               ![StrReplace(name, ".", "_")] =
                                   FullPackage(ExportedFor(name))]
          /\ answer' = [op |-> "import", symbol |-> <<>>, ok |-> TRUE,
                        results |-> <<>>]
    /\ UNCHANGED <<models_of, feature_names_of, coreVars, featVars, mrgVars,
                   trnVars, model_dir, expVars, appVars>>

\* load_models(symbol) of the package layer: a horizon whose file is there
\* is loaded, any other keeps its entry of self._models.
load_package ==
    /\ \E symbol \in PkgSymbols :
          LET dir == DirAt(models_dir, GetModelPkgPath(symbol, models_dir))
          IN /\ models_of' =
                   [models_of EXCEPT ![symbol] =
                       [h \in Horizons |->
                           IF dir.files[ModelFile(h)] # NoEnsemble
                           THEN dir.files[ModelFile(h)]
                           ELSE models_of[symbol][h]]]
             /\ feature_names_of' =
                   IF dir.manifest.written
                   THEN [feature_names_of EXCEPT ![symbol] = dir.manifest.inputs]
                   ELSE feature_names_of
             /\ answer' = [op |-> "load", symbol |-> symbol, ok |-> TRUE,
                           results |-> [h \in Horizons |->
                               IF dir.files[ModelFile(h)] # NoEnsemble
                               THEN 1 ELSE 0]]
    /\ UNCHANGED <<models_dir, coreVars, featVars, mrgVars, trnVars, model_dir,
                   expVars, appVars>>

\* What a loaded model may give, in tenths of a percent.
Percents == {0, 625}

\* predict(symbol, features) of the package layer: 0.0 for a horizon without
\* a model in self._models.
predict_package ==
    /\ \E symbol \in PkgSymbols :
          \E results \in [Horizons -> Percents] :
             /\ \A h \in Horizons :
                   models_of[symbol][h] = NoEnsemble => results[h] = 0
             /\ answer' = [op |-> "predict", symbol |-> symbol, ok |-> TRUE,
                           results |-> results]
    /\ UNCHANGED <<models_dir, models_of, feature_names_of, coreVars, featVars,
                   mrgVars, trnVars, model_dir, expVars, appVars>>

\* The directories delete_model_package(symbol) removes.
DirsOf(symbol, dirs) ==
    {name \in Existing(dirs) :
        EndsWithPkg(name) /\ DerivedSymbol(name) = symbol}

\* delete_model_package(symbol): the symbol's keys leave self._models, every
\* directory whose derived symbol is the symbol is removed, and the call
\* returns whether one was.
delete_model_package ==
    /\ \E symbol \in PkgSymbols :
          /\ models_of' = [models_of EXCEPT ![symbol] = NotLoaded]
          /\ models_dir' = [name \in DOMAIN models_dir |->
                               IF name \in DirsOf(symbol, models_dir)
                               THEN NoDir ELSE models_dir[name]]
          /\ answer' = [op |-> "delete", symbol |-> symbol,
                        ok |-> DirsOf(symbol, models_dir) # {},
                        results |-> <<>>]
    /\ UNCHANGED <<feature_names_of, coreVars, featVars, mrgVars, trnVars,
                   model_dir, expVars, appVars>>

PackagesAtRest ==
    /\ models_dir = [name \in PkgNames |-> NoDir]
    /\ models_of = [s \in PkgSymbols |-> NotLoaded]
    /\ feature_names_of = [s \in PkgSymbols |-> <<>>]
    /\ answer = [op |-> "init", symbol |-> <<>>, ok |-> TRUE, results |-> <<>>]

InitPackages == PackagesAtRest

NextPackages ==
    _import_models \/ load_package \/ predict_package \/ delete_model_package

\* ------------------------------------------------------------------------
\* SignalFilter and the thresholds of ConfigManager
\* ------------------------------------------------------------------------

ThresholdKeys == {"COMBO_4H", "COMBO_5D", "SCALP_4H", "WATCH_5D", "AVOID"}

\* ConfigManager.DEFAULTS["thresholds"], in tenths of a percent.
DEFAULTS ==
    [k \in ThresholdKeys |->
        CASE k = "COMBO_4H" -> 700
          [] k = "COMBO_5D" -> 600
          [] k = "SCALP_4H" -> 700
          [] k = "WATCH_5D" -> 600
          [] k = "AVOID" -> 400]

SignalResult(type_name, is_actionable, confidence) ==
    [type_name |-> type_name, is_actionable |-> is_actionable,
     confidence |-> confidence]

\* A slip in the order of the table: WATCH is looked at before SCALP.
EvaluateWatchFirst(probs, th) ==
    LET p4h == probs["4H"]
        p2d == probs["2D"]
        p5d == probs["5D"]
        avg == p4h + p2d + p5d
    IN IF p4h >= th["COMBO_4H"] /\ p5d >= th["COMBO_5D"]
       THEN SignalResult("COMBO", TRUE, avg)
       ELSE IF p5d >= th["WATCH_5D"]
       THEN SignalResult("WATCH", FALSE, 3 * p5d)
       ELSE IF p4h >= th["SCALP_4H"]
       THEN SignalResult("SCALP", TRUE, 3 * p4h)
       ELSE IF p4h < th["AVOID"] /\ p2d < th["AVOID"] /\ p5d < th["AVOID"]
       THEN SignalResult("AVOID", FALSE, avg)
       ELSE SignalResult("NEUTRAL", FALSE, avg)

\* SignalFilter.evaluate(probs) under the thresholds th.  The confidence is
\* kept in thirds of a tenth of a percent, so that avg needs no division.
Evaluate(probs, th) ==
    LET p4h == probs["4H"]
        p2d == probs["2D"]
        p5d == probs["5D"]
        avg == p4h + p2d + p5d
    IN IF p4h >= th["COMBO_4H"] /\ p5d >= th["COMBO_5D"]
       THEN SignalResult("COMBO", TRUE, avg)
       ELSE IF p4h >= th["SCALP_4H"]
       THEN SignalResult("SCALP", TRUE, 3 * p4h)
       ELSE IF p5d >= th["WATCH_5D"]
       THEN SignalResult("WATCH", FALSE, 3 * p5d)
       ELSE IF p4h < th["AVOID"] /\ p2d < th["AVOID"] /\ p5d < th["AVOID"]
       THEN SignalResult("AVOID", FALSE, avg)
       ELSE SignalResult("NEUTRAL", FALSE, avg)

NotEvaluated ==
    [done |-> FALSE, probs |-> [h \in Horizons |-> 0],
     result |-> SignalResult("", FALSE, 0)]

\* The positions a threshold slider is left at: its lower end and a mark
\* below the defaults.
SliderValues == {0, 400}

\* The probabilities handed to evaluate: nothing, just under the mark and
\* at it.
SignalPercents == {0, 399, 400}

\* The slider of a threshold is let go: config.set("thresholds", key, value).
_build_slider ==
    /\ \E key \in ThresholdKeys, value \in SliderValues :
          thresholds' = [thresholds EXCEPT ![key] = value]
    /\ UNCHANGED <<signal, watchVars, dfVars, hostVars, fetched, poolVars, coreVars, featVars,
                   mrgVars, trnVars, model_dir, expVars, pkgVars>>

\* SignalFilter.evaluate(probs)
evaluate ==
    /\ \E probs \in [Horizons -> SignalPercents] :
          signal' = [done |-> TRUE, probs |-> probs,
                     result |-> Evaluate(probs, thresholds)]
    /\ UNCHANGED <<thresholds, watchVars, dfVars, hostVars, fetched, poolVars, coreVars,
                   featVars, mrgVars, trnVars, model_dir, expVars, pkgVars>>

InitSignal ==
    /\ thresholds = DEFAULTS
    /\ signal = NotEvaluated

SignalAtRest == InitSignal

NextSignal == _build_slider \/ evaluate

\* ------------------------------------------------------------------------
\* WatchlistScreen._scan_all
\* ------------------------------------------------------------------------

\* StockSymbol(symbol): signal_type "" stands for None.
StockSymbol(symbol) ==
    [symbol |-> symbol, probs |-> [h \in Horizons |-> 0], signal_type |-> "",
     data_status |-> "Not Scanned"]

\* SignalFilter.get_signal_priority of "s.signal_type or 'NEUTRAL'".
GetSignalPriority(signal_type) ==
    CASE signal_type = "COMBO" -> 4
      [] signal_type = "SCALP" -> 3
      [] signal_type = "WATCH" -> 2
      [] signal_type \in {"NEUTRAL", ""} -> 1
      [] OTHER -> 0

\* self.stocks.sort(key=priority, reverse=True): descending, stocks of one
\* priority keep their order.
RECURSIVE SortByPriority(_)
SortByPriority(list) ==
    IF list = <<>> THEN <<>>
    ELSE LET top == CHOOSE i \in 1..Len(list) :
                      /\ \A j \in 1..Len(list) :
                            GetSignalPriority(list[i].signal_type)
                                >= GetSignalPriority(list[j].signal_type)
                      /\ \A j \in 1..(i - 1) :
                            GetSignalPriority(list[j].signal_type)
                                < GetSignalPriority(list[i].signal_type)
         IN <<list[top]>>
            \o SortByPriority([k \in 1..(Len(list) - 1) |->
                                  IF k < top THEN list[k] ELSE list[k + 1]])

\* The horizons for which models_dir holds a model of the symbol that loads:
\* a full package for "AAA", nothing at all for "BBB".
Loadable(symbol) == IF symbol = "AAA" THEN Horizons ELSE {}

\* What ModelInference.predict may do for the symbol after load_models: give
\* a percentage per horizon, 0.0 for a horizon without a model, or, where a
\* model is walked, raise out of predict_proba or never come back.
PredictOutcomes(symbol) ==
    {[k |-> "return", probs |-> probs] :
        probs \in {q \in [Horizons -> {0, 400}] :
                      /\ \A h \in Horizons \ Loadable(symbol) : q[h] = 0
                      /\ q["2D"] = 0}}
    \cup (IF Loadable(symbol) = {} THEN {}
          ELSE {[k |-> "raise", probs |-> [h \in Horizons |-> 0]],
                [k |-> "hang", probs |-> [h \in Horizons |-> 0]]})

Waiting == [at |-> "idle", i |-> 0, refused |-> FALSE]

\* "Scan All" is pressed: nothing happens while a scan is marked as running
\* or the watchlist is empty, else the scan is marked as running.
_scan_all ==
    /\ scan.at \in {"idle", "raised"}
    /\ IF is_scanning \/ stocks = <<>>
       THEN /\ scan' = [scan EXCEPT !.refused = TRUE]
            /\ UNCHANGED <<stocks, is_scanning>>
       ELSE /\ is_scanning' = TRUE
            /\ scan' = [at |-> "loop", i |-> 1, refused |-> FALSE]
            /\ UNCHANGED stocks
    /\ UNCHANGED <<sigVars, dfVars, hostVars, fetched, poolVars, coreVars, featVars,
                   mrgVars, trnVars, model_dir, expVars, pkgVars>>

\* One round of the loop of _scan_all: get_data, load_models, predict and
\* evaluate for the stock at position scan.i.
_scan_all_stock ==
    /\ scan.at = "loop" /\ scan.i <= Len(stocks)
    /\ LET stock == stocks[scan.i] IN
       \/ \* get_data gave nothing
          /\ stocks' = [stocks EXCEPT ![scan.i] =
                           [stock EXCEPT !.data_status = "No Data",
                                         !.signal_type = ""]]
          /\ scan' = [scan EXCEPT !.i = @ + 1]
       \/ \E data_status \in {"Live", "Cached"},
             out \in PredictOutcomes(stock.symbol) :
             IF out.k = "return"
             THEN /\ stocks' = [stocks EXCEPT ![scan.i] =
                       [stock EXCEPT
                           !.probs = out.probs,
                           !.signal_type =
                               Evaluate(out.probs, thresholds).type_name,
                           !.data_status = data_status]]
                  /\ scan' = [scan EXCEPT !.i = @ + 1]
             ELSE /\ scan' = [scan EXCEPT
                                 !.at = IF out.k = "raise" THEN "raised"
                                        ELSE "hung"]
                  /\ UNCHANGED stocks
    /\ UNCHANGED <<is_scanning, sigVars, dfVars, hostVars, fetched, poolVars, coreVars,
                   featVars, mrgVars, trnVars, model_dir, expVars, pkgVars>>

\* The end of _scan_all after the loop.
_scan_all_ends ==
    /\ scan.at = "loop" /\ scan.i > Len(stocks)
    /\ stocks' = SortByPriority(stocks)
    /\ is_scanning' = FALSE
    /\ scan' = [scan EXCEPT !.at = "idle", !.i = 0]
    /\ UNCHANGED <<sigVars, dfVars, hostVars, fetched, poolVars, coreVars, featVars,
                   mrgVars, trnVars, model_dir, expVars, pkgVars>>

\* The thresholds config.json holds when the app starts: the defaults, or
\* what the sliders were left at in an earlier run.
SavedThresholds ==
    {DEFAULTS,
     [DEFAULTS EXCEPT !["COMBO_4H"] = 0, !["COMBO_5D"] = 0],
     [DEFAULTS EXCEPT !["SCALP_4H"] = 0],
     [DEFAULTS EXCEPT !["WATCH_5D"] = 400, !["AVOID"] = 0]}

\* The watchlists stocks.json holds when the app starts.
SavedStocks ==
    {<<>>, <<StockSymbol("BBB")>>,
     <<StockSymbol("AAA"), StockSymbol("BBB")>>,
     <<StockSymbol("BBB"), StockSymbol("AAA")>>}

InitWatch ==
    /\ thresholds \in SavedThresholds
    /\ signal = NotEvaluated
    /\ stocks \in SavedStocks
    /\ is_scanning = FALSE
    /\ scan = Waiting

WatchAtRest ==
    /\ stocks = <<>>
    /\ is_scanning = FALSE
    /\ scan = Waiting

NextWatch == _scan_all \/ _scan_all_stock \/ _scan_all_ends

\* ------------------------------------------------------------------------
\* DataFetcher of the device: fetch_symbol and retry_failed
\* ------------------------------------------------------------------------

\* "if symbol not in self.failed_symbols: self.failed_symbols.append(symbol)"
AppendIfNew(list, symbol) ==
    IF \E i \in 1..Len(list) : list[i] = symbol THEN list
    ELSE Append(list, symbol)

\* "if symbol in self.failed_symbols: self.failed_symbols.remove(symbol)":
\* the first entry equal to the symbol goes.
RemoveFirst(list, symbol) ==
    IF \E i \in 1..Len(list) : list[i] = symbol
    THEN LET at == CHOOSE i \in 1..Len(list) :
                     /\ list[i] = symbol
                     /\ \A j \in 1..(i - 1) : list[j] # symbol
         IN [k \in 1..(Len(list) - 1) |->
                IF k < at THEN list[k] ELSE list[k + 1]]
    ELSE list

\* What the remote and the processing of its bars may do to one live
\* fetch: bars come and are processed, no bars come in three attempts, or
\* bars come and their processing raises.
LiveOutcomes == {"live", "no data", "processing error"}

\* What _load_cache(symbol) gives: None without a cache file, else the
\* cached result with is_live False.
LoadCache(file) ==
    IF file = "none" THEN [none |-> TRUE, is_live |-> FALSE]
    ELSE [none |-> FALSE, is_live |-> FALSE]

\* fetch_symbol(symbol, exchange, force=force) with tvdatafeed installed: a
\* cache younger than 15 minutes is returned unless forced; live bars take
\* the symbol off failed_symbols and are cached; without bars, or when
\* their processing raises, the symbol is put on failed_symbols and the
\* cache is returned.
FetchSymbol(symbol, force, outcome, failed, caches) ==
    IF ~force /\ caches[symbol] = "fresh"
    THEN [failed |-> failed, caches |-> caches, attempted |-> FALSE,
          data |-> LoadCache(caches[symbol])]
    ELSE IF outcome = "live"
    THEN [failed |-> RemoveFirst(failed, symbol),
          caches |-> [caches EXCEPT ![symbol] = "fresh"], attempted |-> TRUE,
          data |-> [none |-> FALSE, is_live |-> TRUE]]
    ELSE IF outcome = "no data"
    THEN [failed |-> AppendIfNew(failed, symbol), caches |-> caches,
          attempted |-> TRUE, data |-> LoadCache(caches[symbol])]
    ELSE [failed |-> AppendIfNew(RemoveFirst(failed, symbol), symbol),
          caches |-> caches, attempted |-> TRUE,
          data |-> LoadCache(caches[symbol])]

\* The loop of retry_failed over the copy todo of failed_symbols, from its
\* position i on: results[symbol] = data is not None.
RECURSIVE RetryFrom(_, _, _, _, _, _)
RetryFrom(todo, i, outcomes, failed, caches, results) ==
    IF i > Len(todo)
    THEN [failed |-> failed, caches |-> caches, results |-> results]
    ELSE LET f == FetchSymbol(todo[i], TRUE, outcomes[todo[i]], failed, caches)
         IN RetryFrom(todo, i + 1, outcomes, f.failed, f.caches,
                      [results EXCEPT ![todo[i]] =
                          IF f.data.none THEN "False" ELSE "True"])

NotRetried ==
    [called |-> FALSE, todo |-> <<>>,
     outcomes |-> [s \in Symbols |-> "live"],
     results |-> [s \in Symbols |-> "absent"]]

\* fetch_symbol(symbol, exchange, force=force)
fetch_symbol ==
    /\ \E symbol \in Symbols, force \in BOOLEAN, outcome \in LiveOutcomes :
          LET f == FetchSymbol(symbol, force, outcome, failed_symbols,
                               json_cache)
          IN /\ failed_symbols' = f.failed
             /\ json_cache' = f.caches
             /\ latest' = IF f.attempted
                          THEN [latest EXCEPT ![symbol] = outcome]
                          ELSE latest
    /\ UNCHANGED <<retried, sigVars, watchVars, hostVars, fetched, poolVars, coreVars,
                   featVars, mrgVars, trnVars, model_dir, expVars, pkgVars>>

\* retry_failed(exchange)
retry_failed ==
    /\ \E outcomes \in [Symbols -> LiveOutcomes] :
          LET r == RetryFrom(failed_symbols, 1, outcomes, failed_symbols,
                             json_cache, [s \in Symbols |-> "absent"])
          IN /\ failed_symbols' = r.failed
             /\ json_cache' = r.caches
             /\ latest' = [s \in Symbols |->
                             IF \E i \in 1..Len(failed_symbols) :
                                   failed_symbols[i] = s
                             THEN outcomes[s] ELSE latest[s]]
             /\ retried' = [called |-> TRUE, todo |-> failed_symbols,
                            outcomes |-> outcomes, results |-> r.results]
    /\ UNCHANGED <<sigVars, watchVars, hostVars, fetched, poolVars, coreVars, featVars,
                   mrgVars, trnVars, model_dir, expVars, pkgVars>>

\* Fifteen minutes pass: no cache is fresh any more.
cache_ages ==
    /\ \E s \in Symbols : json_cache[s] = "fresh"
    /\ json_cache' = [s \in Symbols |->
                         IF json_cache[s] = "fresh" THEN "old"
                         ELSE json_cache[s]]
    /\ UNCHANGED <<failed_symbols, latest, retried, sigVars, watchVars,
                   hostVars, fetched, poolVars, coreVars, featVars, mrgVars, trnVars,
                   model_dir, expVars, pkgVars>>

\* DataFetcher(): nothing has failed; a symbol may have a cache file of an
\* earlier run.
InitRetry ==
    /\ failed_symbols = <<>>
    /\ json_cache \in [Symbols -> {"none", "old"}]
    /\ latest = [s \in Symbols |-> "never"]
    /\ retried = NotRetried

RetryAtRest ==
    /\ failed_symbols = <<>>
    /\ json_cache = [s \in Symbols |-> "none"]
    /\ latest = [s \in Symbols |-> "never"]
    /\ retried = NotRetried

MobileAtRest == SignalAtRest /\ WatchAtRest /\ RetryAtRest

NextRetry == fetch_symbol \/ retry_failed \/ cache_ages

\* ------------------------------------------------------------------------
\* StockTrainerApp: the fetch threads and their worker pools
\* ------------------------------------------------------------------------

\* An item of self.stock_list.
Item(symbol, data_status) == [symbol |-> symbol, data_status |-> data_status]

\* "max_workers = 4" of _thread_fetch.
max_workers == 4

\* The most _thread_fetch threads alive at a time.
MaxFetchThreads == 2

NoThread == [alive |-> FALSE, queue |-> <<>>, running |-> {}]

PoolAtRest == fetch_threads = [t \in 1..MaxFetchThreads |-> NoThread]

\* The positions of the stock list _thread_fetch(only_failed) is to process,
\* from position i on:
\* [s for s in stock_list if not (only_failed and s["data_status"] == "Success")]
RECURSIVE ToProcess(_, _, _)
ToProcess(list, only_failed, i) ==
    IF i > Len(list) THEN <<>>
    ELSE IF only_failed /\ list[i].data_status = "Success"
         THEN ToProcess(list, only_failed, i + 1)
         ELSE <<i>> \o ToProcess(list, only_failed, i + 1)

\* _run_thread(self._thread_fetch, only_failed) with the free thread t:
\* the thread hands its items to a pool of its own, or ends at once
\* without items.
RunThread(threads, t, list, only_failed) ==
    LET to_process == ToProcess(list, only_failed, 1)
    IN IF to_process = <<>> THEN threads
       ELSE [threads EXCEPT ![t] = [alive |-> TRUE, queue |-> to_process,
                                    running |-> {}]]

\* "Fetch Data" is pressed.
_on_fetch_all ==
    /\ \E t \in 1..MaxFetchThreads :
          /\ ~fetch_threads[t].alive
          /\ fetch_threads' = RunThread(fetch_threads, t, stock_list, FALSE)
    /\ UNCHANGED <<stock_list, to_train, train_thread, sim_combo, data_dir,
                   fetched, mobVars, coreVars, featVars, mrgVars, tpc, trained,
                   inferred, model_dir, expVars, pkgVars>>

\* "Retry Failed" is pressed.
_on_fetch_failed ==
    /\ \E t \in 1..MaxFetchThreads :
          /\ ~fetch_threads[t].alive
          /\ fetch_threads' = RunThread(fetch_threads, t, stock_list, TRUE)
    /\ UNCHANGED <<stock_list, to_train, train_thread, sim_combo, data_dir,
                   fetched, mobVars, coreVars, featVars, mrgVars, tpc, trained,
                   inferred, model_dir, expVars, pkgVars>>

\* A free worker of a thread's pool takes the next item of its queue and
\* calls engine.fetch_data for the item's symbol.
_fetch_worker ==
    /\ \E t \in 1..MaxFetchThreads :
          /\ fetch_threads[t].alive
          /\ fetch_threads[t].queue # <<>>
          /\ Cardinality(fetch_threads[t].running) < max_workers
          /\ fetch_threads' =
                [fetch_threads EXCEPT
                    ![t].queue = Tail(@),
                    ![t].running = @ \cup {Head(fetch_threads[t].queue)}]
    /\ UNCHANGED <<stock_list, to_train, train_thread, sim_combo, data_dir,
                   fetched, mobVars, coreVars, featVars, mrgVars, tpc, trained,
                   inferred, model_dir, expVars, pkgVars>>

\* engine.fetch_data has returned to a worker, which writes the outcome
\* into its item.  What the call did to the cache files is the subject of
\* fetch_data above.
_fetch_worker_returns ==
    /\ \E t \in 1..MaxFetchThreads :
          \E i \in fetch_threads[t].running, success \in BOOLEAN :
             /\ stock_list' =
                   [stock_list EXCEPT
                       ![i].data_status = IF success THEN "Success"
                                          ELSE "Failed"]
             /\ fetch_threads' = [fetch_threads EXCEPT ![t].running = @ \ {i}]
    /\ UNCHANGED <<to_train, train_thread, sim_combo, data_dir, fetched,
                   mobVars, coreVars, featVars, mrgVars, tpc, trained,
                   inferred, model_dir, expVars, pkgVars>>

\* All futures of a thread are done: its pool shuts down and it ends.
_thread_fetch_ends ==
    /\ \E t \in 1..MaxFetchThreads :
          /\ fetch_threads[t].alive
          /\ fetch_threads[t].queue = <<>>
          /\ fetch_threads[t].running = {}
          /\ fetch_threads' = [fetch_threads EXCEPT ![t] = NoThread]
    /\ UNCHANGED <<stock_list, to_train, train_thread, sim_combo, data_dir,
                   fetched, mobVars, coreVars, featVars, mrgVars, tpc, trained,
                   inferred, model_dir, expVars, pkgVars>>

\* The stock list of an uploaded CSV: two symbols, or three lines of which
\* two name one symbol.
InitPool ==
    /\ stock_list \in {<<Item("AAA", "Pending"), Item("BBB", "Pending")>>,
                       <<Item("AAA", "Pending"), Item("BBB", "Pending"),
                         Item("AAA", "Pending")>>}
    /\ PoolAtRest
    /\ to_train = <<>>
    /\ train_thread = FALSE
    /\ sim_combo = ""

NextPool ==
    \/ _on_fetch_all \/ _on_fetch_failed \/ _fetch_worker
    \/ _fetch_worker_returns \/ _thread_fetch_ends

\* ------------------------------------------------------------------------
\* StockEngine.fetch_data
\* ------------------------------------------------------------------------

\* "configs": the order the timeframes are fetched in.
FetchOrder == <<"1D", "4H", "1H">>

\* pd.concat([existing_df, new_df])
Concat(a, b) == a \o b

\* combined[~combined.index.duplicated(keep='last')]
RECURSIVE DropDuplicatedKeepLast(_)
DropDuplicatedKeepLast(rows) ==
    IF rows = <<>> THEN <<>>
    ELSE IF \E i \in 2..Len(rows) : rows[i].ts = Head(rows).ts
         THEN DropDuplicatedKeepLast(Tail(rows))
         ELSE <<Head(rows)>> \o DropDuplicatedKeepLast(Tail(rows))

\* combined.sort_index() on rows of distinct timestamps.
RECURSIVE SortIndex(_)
SortIndex(rows) ==
    IF rows = <<>> THEN <<>>
    ELSE LET least == CHOOSE i \in 1..Len(rows) :
                         \A j \in 1..Len(rows) : rows[i].ts <= rows[j].ts
         IN <<rows[least]>>
            \o SortIndex([k \in 1..(Len(rows) - 1) |->
                             IF k < least THEN rows[k] ELSE rows[k + 1]])

\* The file fetch_data leaves for one timeframe, given the cache file it
\* found and the bars new_df the remote sent: a readable cache is merged
\* with them, a missing or unreadable one is replaced by them as they came.
StoreFetched(file, new_df) ==
    IF file.state = "csv"
    THEN CsvFile(Frame(OHLCV,
             SortIndex(DropDuplicatedKeepLast(
                 Concat(file.frame.rows, new_df.rows)))))
    ELSE CsvFile(new_df)

\* The loop of fetch_data from the timeframe at position i on: a timeframe
\* for which the remote has no data raises, and the files written before
\* it stay.
RECURSIVE FetchFrom(_, _, _)
FetchFrom(csvs, sent, i) ==
    IF i > Len(FetchOrder) THEN [ok |-> TRUE, csvs |-> csvs]
    ELSE LET tf == FetchOrder[i] IN
         IF IsEmpty(sent[tf]) THEN [ok |-> FALSE, csvs |-> csvs]
         ELSE FetchFrom([csvs EXCEPT ![tf] = StoreFetched(csvs[tf], sent[tf])],
                        sent, i + 1)

NotFetched ==
    [called |-> FALSE, symbol |-> "", ok |-> FALSE,
     sent |-> [tf \in Timeframes |-> EmptyFrame]]

\* Bars at the hours width * stamps[i], in the order of stamps, all with
\* the close price close.
Sent(stamps, width, close) ==
    Frame(OHLCV, [i \in 1..Len(stamps) |-> Bar(width * stamps[i], close, 1, 2)])

\* What the remote may send for the 1H series: nothing, bars in ascending
\* order, and bars with a timestamp twice or out of order.
Sent1H ==
    {EmptyFrame}
    \cup {Sent(stamps, 1, close) :
             stamps \in {<<0, 1>>, <<1, 2>>, <<1, 1>>, <<1, 0>>},
             close \in {5, 6}}

\* What the remote may send for the 4H and the 1D series.
SentLower(width) == {EmptyFrame, Sent(<<0, 1>>, width, 5)}

\* fetch_data(symbol, exchange)
fetch_data ==
    /\ \E sent \in [Timeframes -> Sent1H \cup SentLower(4) \cup SentLower(24)] :
          /\ sent["1H"] \in Sent1H
          /\ sent["4H"] \in SentLower(4)
          /\ sent["1D"] \in SentLower(24)
          /\ LET f == FetchFrom(data_dir["AAA"], sent, 1)
             IN /\ data_dir' = [data_dir EXCEPT !["AAA"] = f.csvs]
                /\ fetched' = [called |-> TRUE, symbol |-> "AAA",
                               ok |-> f.ok, sent |-> sent]
    /\ UNCHANGED <<hostVars, poolVars, mobVars, tpc, trained, inferred, coreVars,
                   featVars, mrgVars, model_dir, expVars, pkgVars>>

\* No cache yet, or a 1H cache file without a byte.
InitFetch ==
    /\ data_dir \in {[s \in Symbols |-> Caches(h, MissingFile, MissingFile)] :
                        h \in {MissingFile, BlankFile}}
    /\ fetched = NotFetched /\ PoolAtRest
    /\ tpc = Idle
    /\ trained = [s \in Symbols |-> NoResult]
    /\ inferred = NotRun

NextFetch == fetch_data

\* ------------------------------------------------------------------------
\* StockTrainerApp: the desktop host
\* ------------------------------------------------------------------------


\* [s for s in items if s["data_status"] == "Success"]
RECURSIVE WithDataSuccess(_)
WithDataSuccess(items) ==
    IF items = <<>> THEN <<>>
    ELSE IF Head(items).data_status = "Success"
         THEN <<Head(items)>> \o WithDataSuccess(Tail(items))
         ELSE WithDataSuccess(Tail(items))

\* _on_train_all: _run_thread starts _thread_train, which takes its list
\* of items from the stock list; one such thread at a time here.
_on_train_all ==
    /\ ~train_thread
    /\ train_thread' = TRUE
    /\ to_train' = WithDataSuccess(stock_list)
    /\ UNCHANGED <<stock_list, sim_combo, fetched, poolVars, mobVars, coreVars, featVars, mrgVars,
                   trnVars, model_dir, expVars, pkgVars>>

\* _thread_train calls train_model for its next item.
_thread_train ==
    /\ train_thread
    /\ tpc.at = "idle"
    /\ to_train # <<>>
    /\ TrainModel(Head(to_train).symbol)
    /\ to_train' = Tail(to_train)
    /\ UNCHANGED <<stock_list, train_thread, sim_combo, fetched, poolVars, mobVars, data_dir,
                   inferred, model_dir, coreVars, featVars, mrgVars, expVars,
                   pkgVars>>

\* _thread_train has trained its last item and ends.
_thread_train_ends ==
    /\ train_thread
    /\ tpc.at = "idle"
    /\ to_train = <<>>
    /\ train_thread' = FALSE
    /\ UNCHANGED <<stock_list, to_train, sim_combo, fetched, poolVars, mobVars, coreVars,
                   featVars, mrgVars, trnVars, model_dir, expVars, pkgVars>>

\* _on_tab_changed fills the combo box from get_trained_models() and the
\* user selects one of its symbols.
_on_tab_changed ==
    /\ \E symbol \in GetTrainedModels(model_dir) : sim_combo' = symbol
    /\ UNCHANGED <<stock_list, to_train, train_thread, fetched, poolVars, mobVars, coreVars,
                   featVars, mrgVars, trnVars, model_dir, expVars, pkgVars>>

\* _on_run_simulation: run_inference for the selected symbol, on the main
\* thread, whatever the training thread is doing.
_on_run_simulation ==
    /\ sim_combo # ""
    /\ RunInference(sim_combo)
    /\ UNCHANGED <<hostVars, fetched, poolVars, mobVars, data_dir, tpc, trained, model_dir,
                   coreVars, featVars, mrgVars, expVars, pkgVars>>

\* Both symbols with a full cache.
FullCaches ==
    Caches(CsvFile(Hourly(MinRows, 40)), CsvFile(Sampled(<<0, 1, 2>>, 4)),
           CsvFile(Sampled(<<0, 1>>, 24)))

\* The stock list holds the two symbols, fetched or not; a symbol may have
\* the models of an earlier training.
InitHost ==
    /\ stock_list \in {<<Item("AAA", a), Item("BBB", b)>> :
                          a \in {"Success", "Pending"},
                          b \in {"Success", "Failed"}}
    /\ to_train = <<>>
    /\ train_thread = FALSE
    /\ sim_combo = ""
    /\ data_dir = [s \in Symbols |-> FullCaches]
    /\ model_dir \in [Symbols -> {NoModels,
                                  [models |-> Saved("e2", "e2", "e2"),
                                   token |-> TRUE]}]
    /\ tpc = Idle
    /\ trained = [s \in Symbols |-> NoResult]
    /\ inferred = NotRun
    /\ fetched = NotFetched /\ PoolAtRest
    /\ MobileAtRest

NextHost ==
    \/ _on_train_all \/ _thread_train \/ _thread_train_ends
    \/ fit_and_save \/ train_return \/ _on_tab_changed \/ _on_run_simulation

\* ------------------------------------------------------------------------
\* Specifications: each part of the program on its own, the others at rest
\* ------------------------------------------------------------------------

TreeAtRest ==
    /\ tree_json = ExampleJson
    /\ tree = NoTree
    /\ node = JInt(0)
    /\ pc = "parse"
    /\ ret = Return(0)
    /\ trail = <<>>

EnsembleAtRest ==
    /\ model_json = GoodModelJson
    /\ model = NoModel
    /\ tidx = 0
    /\ total = 0
    /\ epc = "parse"
    /\ proba = Return(0)

LabelsAtRest ==
    /\ df = <<>>
    /\ labelled = <<>>
    /\ lpc = "ready"

FeaturesAtRest ==
    /\ bars = EmptyFrame
    /\ desk = NotBuilt(EmptyFrame)
    /\ mob = NotBuilt(DefaultFeatures)

MergeAtRest ==
    /\ df_1h = EmptyFrame
    /\ df_4h = EmptyFrame
    /\ df_1d = EmptyFrame
    /\ merged = NotMerged

\* The desktop engine and the package store at rest.
\* No cache, no training under way.
TrainAtRest ==
    /\ data_dir = [s \in Symbols |-> [tf \in Timeframes |-> MissingFile]]
    /\ tpc = Idle
    /\ trained = [s \in Symbols |-> NoResult]
    /\ inferred = NotRun

ModelDirAtRest == model_dir = [s \in Symbols |-> NoModels]

\* No stock loaded, no thread of the host running.
HostAtRest ==
    /\ stock_list = <<>>
    /\ to_train = <<>>
    /\ train_thread = FALSE
    /\ sim_combo = ""

AppAtRest == HostAtRest /\ fetched = NotFetched /\ PoolAtRest /\ MobileAtRest

EngineAtRest ==
    /\ FeaturesAtRest /\ MergeAtRest /\ TrainAtRest /\ ModelDirAtRest
    /\ ExportAtRest /\ PackagesAtRest /\ AppAtRest

\* The inference engine and the label construction at rest.
CoreAtRest ==
    /\ InitInfer /\ TreeAtRest /\ features = <<>> /\ EnsembleAtRest
    /\ LabelsAtRest

\* XGBoostTree.from_json and predict on one tree.
InitSpecTree ==
    InitTree /\ EnsembleAtRest /\ InitInfer /\ LabelsAtRest /\ EngineAtRest

SpecTree == InitSpecTree /\ [][NextTree]_vars

\* XGBoostModel.from_json, predict_raw and predict_proba on one ensemble.
InitSpecEnsemble ==
    InitEnsemble /\ TreeAtRest /\ InitInfer /\ LabelsAtRest /\ EngineAtRest

SpecEnsemble == InitSpecEnsemble /\ [][NextEnsemble]_vars

\* ModelInference.load_models and predict over a changing package.
InitSpecInfer ==
    /\ InitInfer /\ TreeAtRest /\ features = <<>> /\ EnsembleAtRest
    /\ LabelsAtRest /\ EngineAtRest

SpecInfer == InitSpecInfer /\ [][NextInfer]_vars

\* StockEngine._create_targets on one table.
InitSpecLabels ==
    /\ InitLabels /\ TreeAtRest /\ features = <<>> /\ EnsembleAtRest
    /\ InitInfer /\ EngineAtRest

SpecLabels == InitSpecLabels /\ [][NextLabels]_vars

\* The two feature builders on one series.
InitSpecFeatures ==
    /\ InitFeatures /\ CoreAtRest /\ MergeAtRest /\ TrainAtRest
    /\ ModelDirAtRest /\ ExportAtRest /\ PackagesAtRest /\ AppAtRest

SpecFeatures == InitSpecFeatures /\ [][NextFeatures]_vars

\* _merge_timeframes on one triple of series.
InitSpecMerge ==
    /\ InitMerge /\ CoreAtRest /\ FeaturesAtRest /\ TrainAtRest
    /\ ModelDirAtRest /\ ExportAtRest /\ PackagesAtRest /\ AppAtRest

SpecMerge == InitSpecMerge /\ [][NextMerge]_vars

\* train_model and run_inference over the caches of two symbols.
InitSpecTrain ==
    /\ InitTrain /\ CoreAtRest /\ FeaturesAtRest /\ MergeAtRest
    /\ ExportAtRest /\ PackagesAtRest /\ AppAtRest
SpecTrain == InitSpecTrain /\ [][NextTrain]_vars

\* The exports over the saved models of two symbols.
InitSpecExport ==
    /\ InitExport /\ CoreAtRest /\ FeaturesAtRest /\ MergeAtRest
    /\ TrainAtRest /\ PackagesAtRest /\ AppAtRest
SpecExport == InitSpecExport /\ [][NextExport]_vars

\* The app's package directories under imports, loads, predictions and
\* deletions.
InitSpecPackages ==
    /\ InitPackages /\ CoreAtRest /\ FeaturesAtRest /\ MergeAtRest
    /\ TrainAtRest /\ ModelDirAtRest /\ ExportAtRest /\ AppAtRest
SpecPackages == InitSpecPackages /\ [][NextPackages]_vars

\* The desktop host: a training thread beside the simulation tab.
InitSpecHost ==
    /\ InitHost /\ CoreAtRest /\ FeaturesAtRest /\ MergeAtRest
    /\ ExportAtRest /\ PackagesAtRest
SpecHost == InitSpecHost /\ [][NextHost]_vars

\* The threshold sliders and evaluate.
InitSpecSignal ==
    /\ InitSignal /\ CoreAtRest /\ FeaturesAtRest /\ MergeAtRest
    /\ TrainAtRest /\ ModelDirAtRest /\ ExportAtRest /\ PackagesAtRest
    /\ HostAtRest /\ fetched = NotFetched /\ PoolAtRest /\ WatchAtRest /\ RetryAtRest
SpecSignal == InitSpecSignal /\ [][NextSignal]_vars

\* fetch_symbol and retry_failed of the device's fetcher.
InitSpecRetry ==
    /\ InitRetry /\ CoreAtRest /\ FeaturesAtRest /\ MergeAtRest
    /\ TrainAtRest /\ ModelDirAtRest /\ ExportAtRest /\ PackagesAtRest
    /\ HostAtRest /\ fetched = NotFetched /\ PoolAtRest /\ SignalAtRest /\ WatchAtRest
SpecRetry == InitSpecRetry /\ [][NextRetry]_vars

\* Scans of the watchlist under the saved thresholds.
InitSpecWatch ==
    /\ InitWatch /\ CoreAtRest /\ FeaturesAtRest /\ MergeAtRest
    /\ TrainAtRest /\ ModelDirAtRest /\ ExportAtRest /\ PackagesAtRest
    /\ HostAtRest /\ fetched = NotFetched /\ PoolAtRest /\ RetryAtRest
SpecWatch == InitSpecWatch /\ [][NextWatch]_vars

\* The same with a handler that goes on while it can: a started scan takes
\* its next round, and ends after the last.
SpecWatchLive ==
    /\ SpecWatch
    /\ WF_vars(_scan_all_stock)
    /\ WF_vars(_scan_all_ends)

\* The fetch buttons and the worker pools they start.
InitSpecPool ==
    /\ InitPool /\ CoreAtRest /\ FeaturesAtRest /\ MergeAtRest
    /\ TrainAtRest /\ ModelDirAtRest /\ ExportAtRest /\ PackagesAtRest
    /\ fetched = NotFetched /\ MobileAtRest
SpecPool == InitSpecPool /\ [][NextPool]_vars

\* fetch_data again and again on the caches of one symbol.
InitSpecFetch ==
    /\ InitFetch /\ CoreAtRest /\ FeaturesAtRest /\ MergeAtRest
    /\ ModelDirAtRest /\ ExportAtRest /\ PackagesAtRest /\ HostAtRest
    /\ MobileAtRest
SpecFetch == InitSpecFetch /\ [][NextFetch]_vars

\* ------------------------------------------------------------------------
\* Claims about one tree (SpecTree)
\* ------------------------------------------------------------------------

TreeDone == pc \in {"returned", "raised"}

\* The node whose is_leaf flag the loop tested last.
LastVisited == trail[Len(trail)]

\* The weight of the node nd (an int in range) of the parsed tree.
WeightOf(nd) == tree.base_weights[nd.num + 1]

\* nd is a node of the tree that is not a leaf.
InnerNode(nd) ==
    /\ nd.kind = "int"
    /\ nd.num \in 0..(Len(tree.is_leaf) - 1)
    /\ ~tree.is_leaf[nd.num + 1]

\* The split feature index of nd is a position of the feature vector.
SplitInRange(nd) ==
    /\ tree.split_indices[nd.num + 1].kind = "int"
    /\ tree.split_indices[nd.num + 1].num \in 0..(Len(features) - 1)

\* The child the split of nd sends the feature vector to.
ChosenChild(nd) ==
    IF features[tree.split_indices[nd.num + 1].num + 1]
         < tree.split_conditions[nd.num + 1]
    THEN tree.left_children[nd.num + 1]
    ELSE tree.right_children[nd.num + 1]

\* C1: predict returns after finitely many node visits, whatever the child
\* indices.  The loop's only state is node, so it ends exactly if it never
\* tests a node twice, that is if it tests at most as many nodes as the
\* tree has.
C1_PredictTerminates ==
    /\ Len(trail) <= Len(tree.is_leaf)
    /\ \A i, j \in 1..Len(trail) : i # j => trail[i] # trail[j]

\* C2: when the child chosen at a non-leaf node is outside 0..N-1, predict
\* returns the weight of the node whose split was just evaluated, and does
\* not raise.
C2_ChildOutsideReturnsLastWeight ==
    (/\ TreeDone
     /\ Len(trail) > 0
     /\ InnerNode(LastVisited)
     /\ SplitInRange(LastVisited)
     /\ ChosenChild(LastVisited).kind = "int"
     /\ ChosenChild(LastVisited).num \notin 0..(Len(tree.is_leaf) - 1))
    => (pc = "returned" /\ ret.val = WeightOf(LastVisited))

\* C3: when the split feature index of a tested non-leaf node is not a
\* position of the feature vector, predict stops there and returns that
\* node's weight.
C3_FeatureOutsideReturnsOwnWeight ==
    \A i \in 1..Len(trail) :
        (/\ InnerNode(trail[i])
         /\ tree.split_indices[trail[i].num + 1].kind = "int"
         /\ ~SplitInRange(trail[i]))
        => (/\ i = Len(trail)
            /\ pc = "returned"
            /\ ret.val = WeightOf(trail[i]))

\* C6: a tree whose elements arrive as numeric strings, wrapped strings or
\* singleton lists (uncoercible ones counting as 0) parses and evaluates,
\* without raising, to the result of the tree of native numbers.
C6_CoercedTreeEvaluatesAsNative ==
    (TreeDone /\ TreeKeys \subseteq DOMAIN tree_json)
    => LET native == RunTree(TreeFromJson(NativeJson(tree_json)).val,
                             features, JInt(0), MaxNodes + 1)
       IN native.k = "return" => (pc = "returned" /\ ret.val = native.val)

\* ------------------------------------------------------------------------
\* Claims about one ensemble (SpecEnsemble)
\* ------------------------------------------------------------------------

\* The leaf a well-formed tree t routes fs to from node n (from 0): left
\* when the split feature is strictly below the threshold, right otherwise.
RECURSIVE LeafReached(_, _, _)
LeafReached(t, fs, n) ==
    IF t.left_children[n + 1].num = -1 THEN n
    ELSE IF fs[t.split_indices[n + 1].num + 1] < t.split_conditions[n + 1]
         THEN LeafReached(t, fs, t.left_children[n + 1].num)
         ELSE LeafReached(t, fs, t.right_children[n + 1].num)

RECURSIVE SumOfLeaves(_, _, _)
SumOfLeaves(ts, fs, i) ==
    IF i > Len(ts) THEN 0
    ELSE ts[i].base_weights[LeafReached(ts[i], fs, 0) + 1]
         + SumOfLeaves(ts, fs, i + 1)

RawDone == epc \in {"sigmoid", "returned", "raised"}

\* C4: for a well-formed ensemble and an in-range feature vector,
\* predict_raw returns, without raising, the base score plus the weight of
\* the leaf each tree routes the vector to, strictly-less going left and
\* equality right; the stump "feature[0] < 5.0" with leaves -1.0 and +1.0
\* and base score 0 gives -1.0 for 3.0 and +1.0 for 7.0.
C4_RawIsBasePlusLeaves ==
    /\ epc \notin {"hung"}
    /\ epc = "raised" => proba.err = "OverflowError"
    /\ RawDone =>
        /\ total = model.base_score + SumOfLeaves(model.trees, features, 1)
        /\ model_json = EnsembleJson(JStr(<<"0">>), <<ExampleJson>>) =>
            /\ features[1] = 6 => total = -2
            /\ features[1] = 14 => total = 2
            /\ features[1] = 10 => total = 2

\* Two trees summed on top of the base score 0.5, the feature value equal
\* to both thresholds: the stump gives +1.0, the two-level tree 3.5.
C4_Witness ==
    /\ epc = "sigmoid"
    /\ model_json = EnsembleJson(JStr(<<"0", ".", "5">>), <<ExampleJson, DeepJson>>)
    /\ features = <<10, 10>>
    /\ total = 1 + 2 + 7

\* C8: predict_proba returns a value in [0, 1] and never raises, whatever
\* the running total (here as the percentage predict makes of it, in
\* tenths: 0..1000).
C8_ProbaInUnitInterval ==
    /\ epc # "raised"
    /\ epc = "returned" => (proba.k = "return" /\ proba.val \in 0..1000)

\* ------------------------------------------------------------------------
\* Claims about ModelInference (SpecInfer)
\* ------------------------------------------------------------------------

\* C5: predict returns a map with exactly the keys 4H, 2D and 5D, with 0.0
\* for every horizon that has no loaded model, whatever models are loaded
\* for the other horizons.
C5_PredictMapsEveryHorizon ==
    last.op = "predict" =>
        /\ last.res.k = "return"
        /\ DOMAIN last.res.val = Horizons
        /\ \A h \in Horizons : ~_models[h].loaded => last.res.val[h] = 0

\* The serialized ensemble of the file f has no tree list, or a tree of it
\* lacks one of its arrays.
LacksTreeStructure(f) ==
    /\ f.state = "json"
    /\ LET learner == Get(f.json, "learner", f.json)
           booster == Get(Get(learner, "gradient_booster", EmptyDict),
                          "model", EmptyDict)
       IN \/ "trees" \notin DOMAIN booster
          \/ \E i \in 1..Len(booster["trees"]) :
                ~(TreeKeys \subseteq DOMAIN booster["trees"][i])

\* C7: loading an ensemble file without its tree list or without one of a
\* tree's arrays is reported as a failure, leaves no usable model for the
\* horizon, and so the horizon's probability stays 0.0.
C7_StructurelessFileFailsToLoad ==
    /\ last.op = "load" =>
        \A h \in Horizons :
            LacksTreeStructure(files[h])
            => (~last.res.val[h] /\ ~_models[h].loaded)
    /\ (last.op = "predict" /\ fresh /\ last.res.k = "return") =>
        \A h \in Horizons :
            LacksTreeStructure(files[h]) => last.res.val[h] = 0

\* C25: after every load_models the models predict will use are those of
\* the horizons this load reported as loaded: a horizon reported as not
\* loadable has no model left in self._models, so that predict gives 0.0
\* for it and not the output of a model an earlier load cached.
C25_PredictUsesWhatTheLastLoadReported ==
    [][load_models =>
        \A h \in Horizons : _models'[h].loaded <=> last'.res.val[h]]_vars

\* ------------------------------------------------------------------------
\* Claims about _create_targets (SpecLabels)
\* ------------------------------------------------------------------------

\* The horizons as the specification states them: label column, lookahead
\* in rows, threshold in thousandths.
StatedHorizons == {<<"T_4H", 4, 15>>, <<"T_2D", 14, 30>>, <<"T_5D", 35, 50>>}

LabelledRows == {labelled[k] : k \in 1..Len(labelled)}

\* C9: for every row i and horizon (L, t) with row i+L in the table, the
\* horizon's label of row i is 1 if Close[i+L] > Close[i] * (1 + t) and 0
\* otherwise, each horizon on its own.
C9_LabelIsFutureCloseOverThreshold ==
    lpc = "done" =>
        \A i \in 1..Len(df) : \A sh \in StatedHorizons :
            i + sh[2] <= Len(df) =>
                \E r \in LabelledRows :
                    /\ r.idx = i
                    /\ ~r[sh[1]].nan
                    /\ r[sh[1]].v =
                         IF df[i + sh[2]] * 1000 > df[i] * (1000 + sh[3])
                         THEN 1 ELSE 0

\* A row labelled 1 for 5D alone: the close 35 rows on is just over the 5%
\* threshold, the closes 4 and 14 rows on are unchanged.
C9_Witness ==
    /\ lpc = "done"
    /\ \E r \in LabelledRows :
            /\ r.idx + 35 <= Len(df)
            /\ df[r.idx] = 2200 /\ df[r.idx + 35] = 2311
            /\ df[r.idx + 4] = 2200 /\ df[r.idx + 14] = 2200
            /\ r.T_5D.v = 1 /\ r.T_2D.v = 0 /\ r.T_4H.v = 0

\* C10: a row i whose i+L is past the end of the table is dropped, not kept
\* with the label 0, so the output has fewer rows than the input.
C10_TailRowsAreDropped ==
    lpc = "done" =>
        /\ \A r \in LabelledRows : \A sh \in StatedHorizons :
                r.idx + sh[2] <= Len(df)
        /\ Len(df) > 0 => Len(labelled) < Len(df)

\* ------------------------------------------------------------------------
\* Claims about the feature builders (SpecFeatures)
\* ------------------------------------------------------------------------

\* C11: every feature value the desktop and the on-device feature builder
\* put out is a finite number, never NaN or an infinity, whatever the
\* series: zero or constant volumes, zero closes, windows without variance.
C11_FeaturesAreFinite ==
    /\ desk.done =>
        \A i \in 1..Len(desk.out.rows) :
            /\ IsFinite(desk.out.rows[i].Vol_Z)
            /\ IsFinite(desk.out.rows[i].Elasticity)
    /\ mob.done =>
        \A name \in {"Vol_Z_1H", "Vol_Z_4H", "Vol_Z_1D", "Elasticity_1H",
                     "Vol_Z", "Elasticity"} :
            IsFinite(mob.out[name])

\* (col[i] - mean) / std over the trailing min(i, W) rows ending at row i,
\* with 1 for a deviation that is zero or, for a single row, not defined.
TrailingZScore(col, i, W) ==
    LET w == SubSeq(col, IF i > W THEN i - W + 1 ELSE 1, i)
        n == Len(w)
        v == n * SumOfSquares(w) - SumOf(w) * SumOf(w)
        std == IF n < 2 \/ v = 0 THEN Ratio(1, 1) ELSE Root(1, v, n * (n - 1))
    IN Divide(Ratio(n * col[i] - SumOf(w), n), std)

\* C12: the volume z-score at a row is (volume - mean) / std over the
\* trailing window of at most W rows ending at the row, over the partial
\* window (from one row on) before W rows are there, and with 1 in place of
\* a zero deviation: W = 20 on the desktop, W = 60 on the device.
C12_ZScoreOverTrailingWindow ==
    /\ desk.done =>
        \A i \in 1..Len(desk.out.rows) :
            desk.out.rows[i].Vol_Z =
                TrailingZScore(Column(bars, "Volume"), i, 20)
    /\ (mob.done /\ ~IsEmpty(bars)) =>
        mob.out.Vol_Z_1H =
            TrailingZScore(Column(bars, "Volume"), Len(bars.rows), 60)

\* C23: the value the on-device builder hands to a model under a feature
\* name is computed as in training; in particular Elasticity_1H of the last
\* bar is, on the device as on the desktop, the price return divided by
\* the zero-substituted 1H volume z-score.
C23_DeviceElasticityIsTheTrainedOne ==
    (desk.done /\ mob.done /\ ~IsEmpty(bars)) =>
        mob.out.Elasticity_1H = desk.out.rows[Len(bars.rows)].Elasticity

\* ------------------------------------------------------------------------
\* Claims about _merge_timeframes (SpecMerge)
\* ------------------------------------------------------------------------

\* The value of the series d most recently known at the hour ts: the Vol_Z of
\* its latest row at or before ts, 0 when it has none, 0 when d is empty or
\* has no Vol_Z column.
MostRecentlyKnown(d, ts) ==
    IF d.rows = <<>> \/ "Vol_Z" \notin d.columns THEN Ratio(0, 1)
    ELSE LET known == {j \in 1..Len(d.rows) : d.rows[j].ts <= ts}
         IN IF known = {} THEN Ratio(0, 1)
            ELSE d.rows[CHOOSE j \in known :
                           \A k \in known : d.rows[k].ts <= d.rows[j].ts].Vol_Z

\* C13: _merge_timeframes returns a table with exactly the rows of the 1H
\* table, whose Vol_Z_4H and Vol_Z_1D hold at each 1H timestamp the value of
\* the 4H and 1D series most recently known then, 0 before the first, 0
\* throughout for a series that is empty or lacks the column; for every
\* combination of the three series.
C13_MergedIsForwardFilled ==
    merged.done =>
        /\ merged.res.k = "return"
        /\ Timestamps(merged.res.val) = Timestamps(df_1h)
        /\ \A i \in 1..Len(df_1h.rows) :
            /\ merged.res.val.rows[i].Close = df_1h.rows[i].Close
            /\ merged.res.val.rows[i].Vol_Z_1H = df_1h.rows[i].Vol_Z
            /\ merged.res.val.rows[i].Vol_Z_4H =
                    MostRecentlyKnown(df_4h, df_1h.rows[i].ts)
            /\ merged.res.val.rows[i].Vol_Z_1D =
                    MostRecentlyKnown(df_1d, df_1h.rows[i].ts)

\* The timestamps of the series d ascend without a repeat.
Ascending(d) ==
    \A i \in 1..(Len(d.rows) - 1) : d.rows[i].ts < d.rows[i + 1].ts

\* For every combination of three series whose timestamps ascend without
\* a repeat, _merge_timeframes returns the rows of the 1H
\* table with the 4H and 1D values most recently known at each 1H
\* timestamp, 0 before the first, 0 throughout for an empty series or one
\* without the column.
C13_AscendingMergedIsForwardFilled ==
    (Ascending(df_1h) /\ Ascending(df_4h) /\ Ascending(df_1d))
    => C13_MergedIsForwardFilled

\* A 1H row that takes over a new 4H bar's value at the bar's own hour,
\* after a row that carries the bar before, both before the first 1D bar.
C13_Witness ==
    /\ merged.done /\ merged.res.k = "return"
    /\ Ascending(df_4h) /\ Ascending(df_1d)
    /\ df_1d.rows # <<>> /\ "Vol_Z" \in df_1d.columns
    /\ \E i \in 1..(Len(df_1h.rows) - 1) :
        LET r == merged.res.val.rows
        IN /\ ~IsZero(r[i].Vol_Z_4H)
           /\ r[i + 1].Vol_Z_4H # r[i].Vol_Z_4H
           /\ \E j \in 1..Len(df_4h.rows) :
                /\ df_4h.rows[j].ts = r[i + 1].ts
                /\ df_4h.rows[j].Vol_Z = r[i + 1].Vol_Z_4H
           /\ IsZero(r[i].Vol_Z_1D)

\* ------------------------------------------------------------------------
\* train_model and run_inference
\* ------------------------------------------------------------------------

\* The rows a cached series holds; none when the file is missing or blank.
RowsOf(file) == Len(file.frame.rows)

\* train_model has returned for the symbol.
HasReturned(symbol) == trained[symbol].msg # ""

\* C14: whenever fewer than 50 rows survive alignment and labelling, an
\* empty 1H series included, train_model returns a failure whose message
\* reports the rows available for the 1H, the 4H and the 1D timeframe.
C14_TooFewRowsReportsCounts ==
    \A symbol \in Symbols :
        (HasReturned(symbol) /\ RowsOf(data_dir[symbol]["1H"]) < 50) =>
            /\ ~trained[symbol].ok
            /\ DOMAIN trained[symbol].counts = {"1H", "4H", "1D"}
            /\ \A tf \in {"1H", "4H", "1D"} :
                  trained[symbol].counts[tf] = RowsOf(data_dir[symbol][tf])

\* The timeframes whose cache is missing or empty for the symbol.
Lacking(symbol) == {tf \in {"1H", "4H", "1D"} : RowsOf(data_dir[symbol][tf]) = 0}

\* C15: when the cache of a required timeframe is missing or empty,
\* train_model returns a failure that tells which timeframe has no data, and
\* never reaches the fitting and saving of models.
C15_MissingCacheIsSurfaced ==
    /\ \A symbol \in Symbols :
          (HasReturned(symbol) /\ Lacking(symbol) # {}) =>
              /\ ~trained[symbol].ok
              /\ trained[symbol].msg \in {"Missing data", "Insufficient data"}
              /\ DOMAIN trained[symbol].counts = {"1H", "4H", "1D"}
              /\ \A tf \in Lacking(symbol) : trained[symbol].counts[tf] = 0
    /\ tpc.at = "fit" => Lacking(tpc.symbol) = {}

\* C16: whenever train_model has returned success for a symbol, the
\* ensembles of the three horizons 4H, 2D and 5D are on disk for it, and a
\* run_inference on the symbol then returns success with the three
\* probabilities prob_4h, prob_2d and prob_5d, each from 0 to 1.
C16_TrainedSymbolInfers ==
    /\ [](\A symbol \in Symbols :
            trained[symbol].ok =>
                \A k \in {"4H", "2D", "5D"} :
                    model_dir[symbol].models[k] # "none")
    /\ [][\A symbol \in Symbols :
            (tpc.at = "idle" /\ trained[symbol].ok /\ RunInference(symbol)) =>
                /\ inferred'.ok
                /\ inferred'.symbol = symbol
                /\ inferred'.keys = {"prob_4h", "prob_2d", "prob_5d"}
                /\ \A k \in {"4H", "2D", "5D"} :
                      /\ inferred'.probs[k] >= 0
                      /\ inferred'.probs[k] <= 1000]_vars

\* A training has succeeded, and the inference after it has.
C16_Witness ==
    /\ inferred.ok
    /\ trained[inferred.symbol].ok
    /\ tpc.at = "idle"
    /\ \A k \in Horizons : model_dir[inferred.symbol].models[k] = Fitted

\* ------------------------------------------------------------------------
\* export_mobile_package and export_all_models
\* ------------------------------------------------------------------------

\* The horizons without a saved ensemble of the symbol.
AbsentHorizons(symbol) ==
    {k \in {"4H", "2D", "5D"} : model_dir[symbol].models[k] = "none"}

\* The horizon an error message names.
NamedHorizon(err) ==
    CASE err = "Missing 4H model" -> "4H"
      [] err = "Missing 2D model" -> "2D"
      [] err = "Missing 5D model" -> "5D"
      [] OTHER -> ""

\* C17: export_mobile_package(symbol) fails whenever one of the ensembles
\* of the horizons 4H, 2D and 5D is not present, with an error that names a
\* horizon that is absent; it succeeds only when the three are present.
C17_ExportFailsNamingAbsentHorizon ==
    [][export_mobile_package =>
          LET symbol == exported'.symbol
          IN /\ AbsentHorizons(symbol) # {} =>
                   /\ exported'.k = "raise"
                   /\ NamedHorizon(exported'.err) \in AbsentHorizons(symbol)
             /\ exported'.k = "return" => AbsentHorizons(symbol) = {}]_vars

\* An export has failed on a symbol with its 4H model saved and its 2D
\* model not.
C17_Witness ==
    /\ exported.called /\ exported.k = "raise"
    /\ exported.err = "Missing 2D model"
    /\ model_dir[exported.symbol].models["4H"] # "none"
    /\ model_dir[exported.symbol].models["2D"] = "none"

TrainedSymbols == {s \in Symbols : model_dir[s].models["4H"] # "none"}

\* C19: export_all_models attempts every trained symbol and skips those
\* whose export fails; it returns the master directory when at least one
\* symbol exported, and fails when none did; on success the master
\* directory holds one package for each symbol exported in the call and
\* no other.
C19_BulkExportSkipsFailures ==
    [][export_all_models =>
          LET able == {s \in TrainedSymbols : AbsentHorizons(s) = {}}
          IN /\ \A s \in TrainedSymbols : pkg_dir'[s].exists
             /\ able = {} => exported_all'.k = "raise"
             /\ able # {} =>
                   /\ exported_all'.k = "return"
                   /\ master_export_dir'.exists
                   /\ \A s \in Symbols :
                         master_export_dir'.pkgs[s].exists <=> s \in able
                   /\ \A s \in able :
                         /\ master_export_dir'.pkgs[s] = pkg_dir'[s]
                         /\ master_export_dir'.pkgs[s].manifest.symbol = s
                         /\ \A k \in {"4H", "2D", "5D"} :
                               master_export_dir'.pkgs[s].files[ModelFile(k)]
                                  = model_dir[s].models[k]]_vars

\* A bulk export has returned with the package of one symbol, the export of
\* the other having failed on its missing 2D model.
C19_Witness ==
    /\ exported_all.called /\ exported_all.k = "return"
    /\ master_export_dir.pkgs["BBB"].exists
    /\ ~master_export_dir.pkgs["AAA"].exists
    /\ model_dir["AAA"].models = Saved("e1", "none", "e1")
    /\ pkg_dir["AAA"].exists /\ ~pkg_dir["AAA"].manifest.written

\* ------------------------------------------------------------------------
\* The package directories of the app
\* ------------------------------------------------------------------------

\* The directories load_models(symbol) may read: <safe>_pkg and
\* <safe>_mobile_pkg for the symbol with "_" for each ".".
ReadBy(symbol) ==
    {StrReplace(symbol, ".", "_") \o <<"_", "pkg">>,
     StrReplace(symbol, ".", "_") \o <<"_", "mobile", "_", "pkg">>}

\* C20: after delete_model_package(symbol) has returned True, no horizon
\* file and no manifest of the symbol is left in a directory load_models
\* would read for it and no model of it is left in memory, so that a
\* load_models and predict that follow give 0.0 for every horizon; and
\* every symbol list_available_symbols() shows is deleted so.
C20_PackageIsDeletedAsAUnit ==
    /\ []((answer.op = "delete" /\ answer.ok) =>
            /\ \A name \in ReadBy(answer.symbol) \cap DOMAIN models_dir :
                  /\ ~models_dir[name].exists
                  /\ \A n \in DOMAIN models_dir[name].files :
                        models_dir[name].files[n] = "none"
                  /\ ~models_dir[name].manifest.written
            /\ \A h \in {"4H", "2D", "5D"} :
                  models_of[answer.symbol][h] = "none")
    /\ [][(delete_model_package
             /\ answer'.symbol \in ListAvailableSymbols(models_dir))
              => answer'.ok]_vars
    /\ [][(answer.op = "delete" /\ answer.ok /\ load_package
             /\ answer'.symbol = answer.symbol)
              => \A h \in {"4H", "2D", "5D"} :
                    /\ answer'.results[h] = 0
                    /\ models_of'[answer.symbol][h] = "none"]_vars

\* C28: export_mobile_package is all-or-nothing: a call that fails leaves
\* the symbol's package directory as it was before the call, neither
\* created nor partly overwritten, so that every package directory there
\* is holds the three model files and a manifest.
C28_ExportIsAllOrNothing ==
    /\ [][(export_mobile_package /\ exported'.k = "raise")
            => pkg_dir' = pkg_dir]_vars
    /\ [](\A s \in Symbols :
            pkg_dir[s].exists =>
                /\ \A n \in ModelFileNames : pkg_dir[s].files[n] # NoEnsemble
                /\ pkg_dir[s].manifest.written)

\* ------------------------------------------------------------------------
\* The desktop host
\* ------------------------------------------------------------------------

\* train_model for the symbol has been called and has not returned.
TrainingInProgress(symbol) == tpc.at = "fit" /\ tpc.symbol = symbol

\* C21: the host never runs run_inference for a symbol while train_model
\* for that symbol is in progress on the worker thread, so that inference
\* never reads model files of which only some have been rewritten.
C21_NoInferenceDuringTraining ==
    [][_on_run_simulation => ~TrainingInProgress(sim_combo)]_vars

\* The engine.fetch_data calls in progress: <<thread, position in the
\* stock list>>.
Executing ==
    {<<t, i>> \in (1..MaxFetchThreads) \X (1..Len(stock_list)) :
        i \in fetch_threads[t].running}

\* C24: whatever the stock list and the sequence of Fetch Data and Retry
\* Failed requests, at most 4 engine.fetch_data calls are in progress at a
\* time and no two of them are for the same symbol.
C24_BoundedPoolOneWorkerPerSymbol ==
    /\ Cardinality(Executing) <= 4
    /\ \A a, b \in Executing :
          stock_list[a[2]].symbol = stock_list[b[2]].symbol => a = b

\* ------------------------------------------------------------------------
\* The caches of fetch_data
\* ------------------------------------------------------------------------

\* The rows of the frame f at the timestamp ts.
RowsAt(f, ts) == {f.rows[i] : i \in {j \in 1..Len(f.rows) : f.rows[j].ts = ts}}

\* C22: after any sequence of fetch_data calls for a symbol every cached
\* series has timestamps that ascend without a repeat, and the bar stored
\* for a timestamp that the old cache and the newly fetched bars share is
\* a newly fetched one.
C22_CachesAreSortedUniqueLatestWins ==
    /\ [](\A tf \in Timeframes :
            data_dir["AAA"][tf].state = "csv"
                => Ascending(data_dir["AAA"][tf].frame))
    /\ [][fetch_data =>
            \A tf \in Timeframes :
                (data_dir["AAA"][tf].state = "csv"
                 /\ data_dir'["AAA"][tf] # data_dir["AAA"][tf])
                => \A i \in 1..Len(data_dir["AAA"][tf].frame.rows) :
                     LET ts == data_dir["AAA"][tf].frame.rows[i].ts
                     IN RowsAt(fetched'.sent[tf], ts) # {}
                        => RowsAt(data_dir'["AAA"][tf].frame, ts)
                              \subseteq RowsAt(fetched'.sent[tf], ts)]_vars

\* ------------------------------------------------------------------------
\* Claims about SignalFilter (SpecSignal)
\* ------------------------------------------------------------------------

\* C27: evaluate returns exactly one signal type, the first that matches in
\* the order of the documented table: COMBO if 4H >= COMBO_4H and
\* 5D >= COMBO_5D; else SCALP if 4H >= SCALP_4H; else WATCH if
\* 5D >= WATCH_5D; else AVOID if all three are below AVOID; else NEUTRAL;
\* and is_actionable is true exactly for COMBO and SCALP.
C27_FirstMatchOfTheTable ==
    [][evaluate =>
        LET p == signal'.probs
            r == signal'.result
            combo == p["4H"] >= thresholds["COMBO_4H"]
                     /\ p["5D"] >= thresholds["COMBO_5D"]
            scalp == p["4H"] >= thresholds["SCALP_4H"]
            watch == p["5D"] >= thresholds["WATCH_5D"]
            avoid == \A h \in Horizons : p[h] < thresholds["AVOID"]
        IN /\ r.type_name \in {"COMBO", "SCALP", "WATCH", "AVOID", "NEUTRAL"}
           /\ r.type_name = "COMBO" <=> combo
           /\ r.type_name = "SCALP" <=> (~combo /\ scalp)
           /\ r.type_name = "WATCH" <=> (~combo /\ ~scalp /\ watch)
           /\ r.type_name = "AVOID" <=> (~combo /\ ~scalp /\ ~watch /\ avoid)
           /\ r.is_actionable <=> r.type_name \in {"COMBO", "SCALP"}]_vars

\* A SCALP that was handed a 5D probability at the WATCH threshold, under
\* thresholds that were moved away from the defaults.
C27_Witness ==
    /\ signal.done
    /\ signal.result.type_name = "SCALP"
    /\ signal.probs["5D"] >= thresholds["WATCH_5D"]
    /\ thresholds # DEFAULTS

\* ------------------------------------------------------------------------
\* Claims about the watchlist scan (SpecWatch, SpecWatchLive)
\* ------------------------------------------------------------------------

\* C29: at most one scan runs at a time, and every scan that starts ends
\* and puts is_scanning back to False, also when prediction fails for a
\* symbol, so that a later Scan All on a watchlist that is not empty is not
\* refused for ever.
C29_ScanEndsAndResets ==
    /\ [](scan.at = "loop" => is_scanning)
    /\ [][(_scan_all /\ is_scanning) => (scan'.refused /\ scan'.at = scan.at)]_vars
    /\ (is_scanning ~> ~is_scanning)

\* C30: a symbol for which no horizon model is loadable never gets an
\* actionable signal: its probabilities are 0.0 for every horizon and the
\* type evaluate gives it is neither COMBO nor SCALP, whatever thresholds
\* the sliders were left at.
C30_NoModelNoActionableSignal ==
    \A i \in 1..Len(stocks) :
        Loadable(stocks[i].symbol) = {}
        => /\ \A h \in Horizons : stocks[i].probs[h] = 0
           /\ stocks[i].signal_type \notin {"COMBO", "SCALP"}

\* ------------------------------------------------------------------------
\* Claims about the device's fetcher (SpecRetry)
\* ------------------------------------------------------------------------

\* The symbols on the list.
Listed(list) == {list[i] : i \in 1..Len(list)}

\* C26: retry_failed fetches again every symbol that was on failed_symbols
\* and reports each True exactly when the forced fetch got live data, and
\* exactly the symbols reported True leave failed_symbols; and at all times
\* failed_symbols holds no symbol twice and holds a symbol exactly when its
\* latest attempted live fetch failed.
C26_RetryReportsLiveSuccess ==
    /\ [](/\ \A i, j \in 1..Len(failed_symbols) :
                failed_symbols[i] = failed_symbols[j] => i = j
          /\ \A s \in Symbols :
                s \in Listed(failed_symbols)
                    <=> latest[s] \in {"no data", "processing error"})
    /\ [][retry_failed =>
            /\ \A s \in Symbols :
                  /\ retried'.results[s] # "absent"
                        <=> s \in Listed(failed_symbols)
                  /\ retried'.results[s] = "True"
                        <=> (s \in Listed(failed_symbols)
                             /\ retried'.outcomes[s] = "live")
            /\ Listed(failed_symbols') =
                  Listed(failed_symbols)
                    \ {s \in Symbols : retried'.results[s] = "True"}]_vars

====
